---- MODULE Spec2Model ----
(***************************************************************************)
(* A model of bio-standardizer-ai: the heuristic extractor (parser.py /    *)
(* extractor.py), the record model (schema.py) and the external-source     *)
(* reconciler (extractor_ai.py).                                           *)
(*                                                                         *)
(* Python strings are TLA+ strings, read character by character with       *)
(* SubSeq.  The module text is ASCII, so the four non-ASCII glyphs of the  *)
(* source are written as ASCII characters that occur nowhere else in the   *)
(* inputs: BULLET (U+2022), MIDDOT (U+00B7), ENDASH (U+2013) and EMDASH    *)
(* (U+2014).  Optional[str] is a sequence of length 0 (None) or 1.         *)
(***************************************************************************)
EXTENDS Integers, Sequences, FiniteSets, TLC

\* ------------------------------------------------------------------
\* characters and the str methods the source uses
\* ------------------------------------------------------------------
BULLET == "~"
MIDDOT == "^"
ENDASH == "%"
EMDASH == "$"

UPPERCASE == "ABCDEFGHIJKLMNOPQRSTUVWXYZ"
LOWERCASE == "abcdefghijklmnopqrstuvwxyz"
DIGITS == "0123456789"

\* s[a-1:b] as Python slices: indices outside the string are clamped
Sub(s, a, b) ==
    LET lo == IF a < 1 THEN 1 ELSE a
        hi == IF b > Len(s) THEN Len(s) ELSE b
    IN IF lo > hi THEN "" ELSE SubSeq(s, lo, hi)

Ch(s, i) == Sub(s, i, i)

CharsOf(s) == {Ch(s, i) : i \in 1..Len(s)}

UpperSet == CharsOf(UPPERCASE)
LowerSet == CharsOf(LOWERCASE)
DigitSet == CharsOf(DIGITS)
LetterSet == UpperSet \cup LowerSet
\* \s of the re module, on the characters a TLA+ string can hold
Whitespace == {" ", "\t", "\n", "\r", "\f"}

IndexIn(alphabet, c) == CHOOSE i \in 1..Len(alphabet) : Ch(alphabet, i) = c

LowerChar(c) == IF c \in UpperSet THEN Ch(LOWERCASE, IndexIn(UPPERCASE, c)) ELSE c
UpperChar(c) == IF c \in LowerSet THEN Ch(UPPERCASE, IndexIn(LOWERCASE, c)) ELSE c

RECURSIVE MapFrom(_, _, _)
\* s[i:] with the character map "lower" or "upper" applied
MapFrom(s, i, how) ==
    IF i > Len(s) THEN ""
    ELSE (IF how = "lower" THEN LowerChar(Ch(s, i)) ELSE UpperChar(Ch(s, i)))
         \o MapFrom(s, i + 1, how)

\* str.lower, str.upper
Lower(s) == MapFrom(s, 1, "lower")
Upper(s) == MapFrom(s, 1, "upper")

\* str.isupper: some cased character, and no lower-case one
IsUpperStr(s) ==
    /\ \E i \in 1..Len(s) : Ch(s, i) \in UpperSet
    /\ \A i \in 1..Len(s) : Ch(s, i) \notin LowerSet

\* variant: first character upper-cased, the rest as it is
Capitalize_KeepRest(s) ==
    IF s = "" THEN "" ELSE UpperChar(Ch(s, 1)) \o Sub(s, 2, Len(s))

\* str.capitalize: first character upper-cased, the rest lower-cased
Capitalize(s) ==
    IF s = "" THEN "" ELSE UpperChar(Ch(s, 1)) \o Lower(Sub(s, 2, Len(s)))

\* str.strip(chars): the longest prefix and suffix made of chars are removed
StripChars(s, chars) ==
    LET keep == {i \in 1..Len(s) : Ch(s, i) \notin chars}
    IN IF keep = {} THEN ""
       ELSE LET lo == CHOOSE i \in keep : \A j \in keep : i <= j
                hi == CHOOSE i \in keep : \A j \in keep : i >= j
            IN Sub(s, lo, hi)

\* str.strip()
Strip(s) == StripChars(s, Whitespace)

\* str.startswith
StartsWith(s, p) == Len(s) >= Len(p) /\ Sub(s, 1, Len(p)) = p

\* `sub in s`
Contains(s, sub) ==
    \E i \in 1..(Len(s) - Len(sub) + 1) : Sub(s, i, i + Len(sub) - 1) = sub

RECURSIVE SplitWsFrom(_, _, _)
\* the non-empty pieces of re.split(r'\s+', s): cur is the piece being read
SplitWsFrom(s, i, cur) ==
    IF i > Len(s) THEN (IF cur = "" THEN <<>> ELSE <<cur>>)
    ELSE IF Ch(s, i) \in Whitespace
         THEN (IF cur = "" THEN <<>> ELSE <<cur>>) \o SplitWsFrom(s, i + 1, "")
         ELSE SplitWsFrom(s, i + 1, cur \o Ch(s, i))

\* [t for t in re.split(r'\s+', s) if t], which is also s.split()
SplitWs(s) == SplitWsFrom(s, 1, "")

RECURSIVE SubWsFrom(_, _)
\* re.sub(r"\s+", " ", s): every maximal whitespace run becomes one space
SubWsFrom(s, i) ==
    IF i > Len(s) THEN ""
    ELSE IF Ch(s, i) \in Whitespace
         THEN (IF i > 1 /\ Ch(s, i - 1) \in Whitespace THEN "" ELSE " ")
              \o SubWsFrom(s, i + 1)
         ELSE Ch(s, i) \o SubWsFrom(s, i + 1)

\* re.sub(r"\s+", " ", s).strip()
CollapseWs(s) == Strip(SubWsFrom(s, 1))

RECURSIVE Join(_, _)
\* sep.join(parts)
Join(parts, sep) ==
    IF Len(parts) = 0 THEN ""
    ELSE IF Len(parts) = 1 THEN parts[1]
    ELSE parts[1] \o sep \o Join(Tail(parts), sep)

RECURSIVE KeepFrom(_, _, _)
\* s[i:] without the characters outside `keep`: re.sub(r'[^...]', '', s)
KeepFrom(s, i, keep) ==
    IF i > Len(s) THEN ""
    ELSE (IF Ch(s, i) \in keep THEN Ch(s, i) ELSE "") \o KeepFrom(s, i + 1, keep)

\* Optional[str]
None == <<>>
Some(s) == <<s>>

\* ------------------------------------------------------------------
\* parser.py: the field detectors and the section segmenter
\* ------------------------------------------------------------------
KeyOrder ==
    <<"summary", "expertise", "experience", "education", "certifications",
      "affiliations", "awards">>

SectionKeys == {KeyOrder[k] : k \in 1..Len(KeyOrder)}

SECTION_ALIASES ==
    [k \in SectionKeys |->
        CASE k = "summary" -> {"summary", "profile", "about"}
          [] k = "expertise" ->
                {"expertise", "skills", "capabilities", "core competencies"}
          [] k = "experience" ->
                {"experience", "selected experience", "professional experience",
                 "engagements"}
          [] k = "education" -> {"education", "academic"}
          [] k = "certifications" -> {"certifications", "licenses"}
          [] k = "affiliations" -> {"affiliations", "memberships"}
          [] k = "awards" -> {"awards", "recognition", "honors"}]

\* the Optional[str] cursor of split_sections: None is falsy, every key truthy
NoKey == "None"

\* re.match(r'^[A-Z][a-z\-]+$', t)
CapWordLoose(t) ==
    /\ Len(t) >= 2
    /\ Ch(t, 1) \in UpperSet
    /\ \A i \in 2..Len(t) : Ch(t, i) \in LowerSet \cup {"-"}

looks_like_name(line) ==
    LET tokens == SplitWs(line)
        n == Len(tokens)
        upp == Cardinality({k \in 1..n : CapWordLoose(tokens[k])})
    IN IF ~(2 <= n /\ n <= 5) THEN FALSE
       ELSE upp >= (IF n - 1 > 2 THEN n - 1 ELSE 2)

\* re.match(r'^[A-Z][a-z]+$', t)
CapWord(t) ==
    /\ Len(t) >= 2
    /\ Ch(t, 1) \in UpperSet
    /\ \A i \in 2..Len(t) : Ch(t, i) \in LowerSet

RECURSIVE SumLen(_)
SumLen(parts) == IF Len(parts) = 0 THEN 0 ELSE Len(parts[1]) + SumLen(Tail(parts))

\* re.match(r'^([A-Z][a-z]+)(\s[A-Z][a-z]+){0,2}$', s): one to three
\* capitalized words, one whitespace character between neighbours
TitleCaseLine(s) ==
    LET tokens == SplitWs(s)
        n == Len(tokens)
    IN /\ 1 <= n /\ n <= 3
       /\ \A k \in 1..n : CapWord(tokens[k])
       /\ Len(s) = SumLen(tokens) + (n - 1)

\* the test of classify_heading's last branch (parser.py line 80)
ShortHeadingShape(s) ==
    Len(SplitWs(s)) <= 3 /\ (IsUpperStr(s) \/ TitleCaseLine(s))

classify_heading(s) ==
    LET base == KeepFrom(Lower(Strip(s)), 1, LowerSet \cup Whitespace)
        hits == {k \in 1..Len(KeyOrder) :
                    \E nm \in SECTION_ALIASES[KeyOrder[k]] :
                        base = nm \/ StartsWith(base, nm)}
    IN IF hits # {}
       THEN KeyOrder[CHOOSE k \in hits : \A j \in hits : k <= j]
       ELSE IF ShortHeadingShape(s) THEN NoKey
       ELSE NoKey

BulletGlyphs == {BULLET, "-", "*", MIDDOT}

RECURSIVE SkipWs(_, _)
\* the first index >= i of s that holds no whitespace (Len(s) + 1 if none)
SkipWs(s, i) ==
    IF i <= Len(s) /\ Ch(s, i) \in Whitespace THEN SkipWs(s, i + 1) ELSE i

\* variant: only the surrounding whitespace is removed
clean_one_StripOnly(r) == Strip(r)

\* re.sub(r'^[<BULLET>\-\*<BULLET><MIDDOT>]\s*', '', r).strip()
clean_one(r) ==
    Strip(IF Len(r) >= 1 /\ Ch(r, 1) \in BulletGlyphs
          THEN Sub(r, SkipWs(r, 2), Len(r))
          ELSE r)

RECURSIVE clean_bullets(_)
clean_bullets(raw) ==
    IF Len(raw) = 0 THEN <<>>
    ELSE LET s == clean_one(raw[1])
         IN (IF s # "" THEN <<s>> ELSE <<>>) \o clean_bullets(Tail(raw))

RECURSIVE RunEnd(_, _, _)
\* the first index >= i of s whose character is outside `set` (Len(s) + 1 if
\* none): where a greedy [set]* that starts at i stops
RunEnd(s, i, set) ==
    IF i <= Len(s) /\ Ch(s, i) \in set THEN RunEnd(s, i + 1, set) ELSE i

Max(S) == CHOOSE x \in S : \A y \in S : x >= y
Min(S) == CHOOSE x \in S : \A y \in S : x <= y

\* [\w.\-+] and [A-Za-z0-9.\-] of EMAIL_RE
EmailLocalChars == LetterSet \cup DigitSet \cup {"_", ".", "-", "+"}
EmailDomainChars == LetterSet \cup DigitSet \cup {".", "-"}

\* EMAIL_RE matched at index i: the index of the match's last character, 0
\* when there is no match.  [A-Za-z0-9.\-]+ is greedy, so the engine settles
\* on the last '.' of the domain run that two letters follow.
EmailMatchEnd(text, i) ==
    LET p == RunEnd(text, i, EmailLocalChars)
    IN IF p = i \/ p > Len(text) \/ Ch(text, p) # "@" THEN 0
       ELSE LET q == RunEnd(text, p + 1, EmailDomainChars)
                dots == {j \in (p + 2)..(q - 1) :
                            /\ Ch(text, j) = "."
                            /\ j + 2 <= Len(text)
                            /\ Ch(text, j + 1) \in LetterSet
                            /\ Ch(text, j + 2) \in LetterSet}
            IN IF dots = {} THEN 0
               ELSE RunEnd(text, Max(dots) + 1, LetterSet) - 1

\* EMAIL_RE.search(text): the leftmost match
detect_email(text) ==
    LET starts == {i \in 1..Len(text) : EmailMatchEnd(text, i) > 0}
    IN IF starts = {} THEN None
       ELSE Some(Sub(text, Min(starts), EmailMatchEnd(text, Min(starts))))

\* text[i:] starts with the lower-case pattern, ignoring case (re.I)
MatchCI(text, i, pat) == Lower(Sub(text, i, i + Len(pat) - 1)) = pat

LinkPathChars == LetterSet \cup DigitSet \cup {"-", "_", "/"}

\* LI_RE matched at index i: the index of the match's last character, or 0
LinkMatchEnd(text, i) ==
    IF ~MatchCI(text, i, "http") THEN 0
    ELSE LET b == IF MatchCI(text, i + 4, "s") THEN i + 5 ELSE i + 4
         IN IF ~MatchCI(text, b, "://") THEN 0
            ELSE LET d == IF MatchCI(text, b + 3, "www.") THEN b + 7 ELSE b + 3
                 IN IF ~MatchCI(text, d, "linkedin.com/") THEN 0
                    ELSE LET e == d + Len("linkedin.com/")
                             f == RunEnd(text, e, LinkPathChars)
                         IN IF f = e THEN 0 ELSE f - 1

\* LI_RE.search(text)
detect_linkedin(text) ==
    LET starts == {i \in 1..Len(text) : LinkMatchEnd(text, i) > 0}
    IN IF starts = {} THEN None
       ELSE Some(Sub(text, Min(starts), LinkMatchEnd(text, Min(starts))))

\* \d{n} at index i
DigitsAt(s, i, n) == i + n - 1 <= Len(s) /\ \A k \in i..(i + n - 1) : Ch(s, k) \in DigitSet

\* re.search(r'\d{3}.*\d{3}.*\d{4}', ln) or re.search(r'\+\d{7,}', ln)
PhoneShape(ln) ==
    \/ \E a \in 1..Len(ln) :
          /\ DigitsAt(ln, a, 3)
          /\ \E b \in (a + 3)..Len(ln) :
                /\ DigitsAt(ln, b, 3)
                /\ \E c \in (b + 3)..Len(ln) : DigitsAt(ln, c, 4)
    \/ \E a \in 1..Len(ln) : Ch(ln, a) = "+" /\ DigitsAt(ln, a + 1, 7)

\* re.sub(r'[^\d+]', '', ln)
DigitsPlus(ln) == KeepFrom(ln, 1, DigitSet \cup {"+"})

RECURSIVE detect_phone(_)
detect_phone(lns) ==
    IF Len(lns) = 0 THEN None
    ELSE LET ln == lns[1]
             digits == DigitsPlus(ln)
         IN IF Len(ln) < 8 THEN detect_phone(Tail(lns))
            ELSE IF PhoneShape(ln) /\ Len(KeepFrom(digits, 1, DigitSet)) >= 10
                 THEN Some(digits)
                 ELSE detect_phone(Tail(lns))

\* ------------------------------------------------------------------
\* Python values that reach the constructors.  Every value is a record
\* [t, s, l]: t is the type, s the text of a str (or of an int), l the
\* items of a list, or the <<client_or_project, role, impact>> entries of
\* a dict or of an ExperienceItem instance ("missing" for an absent key).
\* ------------------------------------------------------------------
PyNone == [t |-> "none", s |-> "", l |-> <<>>]
PyMissing == [t |-> "missing", s |-> "", l |-> <<>>]
PyStr(x) == [t |-> "str", s |-> x, l |-> <<>>]
PyInt(x) == [t |-> "int", s |-> x, l |-> <<>>]
PyList(items) == [t |-> "list", s |-> "", l |-> items]
PyDict(cp, role, impact) == [t |-> "dict", s |-> "", l |-> <<cp, role, impact>>]
PyItem(cp, role, impact) == [t |-> "item", s |-> "", l |-> <<cp, role, impact>>]

\* Optional[str] -> Python value
PyOpt(o) == IF o = None THEN PyNone ELSE PyStr(o[1])

RECURSIVE PyStrs(_)
\* List[str] -> Python value items
PyStrs(xs) == IF Len(xs) = 0 THEN <<>> ELSE <<PyStr(xs[1])>> \o PyStrs(Tail(xs))

\* bool(v)
Truthy(v) ==
    CASE v.t = "none" -> FALSE
      [] v.t = "missing" -> FALSE
      [] v.t = "str" -> v.s # ""
      [] v.t = "int" -> v.s # "0"
      [] v.t = "list" -> Len(v.l) > 0
      [] v.t = "dict" -> \E k \in 1..3 : v.l[k].t # "missing"
      [] OTHER -> TRUE

\* ------------------------------------------------------------------
\* schema.py: helpers
\* ------------------------------------------------------------------
ACRONYMS ==
    {"AI", "ML", "NLP", "LLM", "R&D", "SQL", "BI", "M&A", "ESG", "CFA", "CPA",
     "AWS", "GCP", "GPU", "API", "CEO", "CIO", "CTO"}

WORD_LIMIT_BULLET == 16

\* one piece of re.split(r"(\s+|-|/)", ...) that is no separator
title_word(w) ==
    IF Upper(w) \in ACRONYMS THEN Upper(w)
    ELSE IF IsUpperStr(w) /\ Len(w) <= 3 THEN Upper(w)
    ELSE IF w = "" THEN ""
    ELSE UpperChar(Ch(w, 1)) \o Sub(w, 2, Len(w))

RECURSIVE TitleFrom(_, _, _)
\* smart_title's loop over s[i:], cur being the word read so far; the
\* separators (whitespace runs, '-', '/') are kept as they are
TitleFrom(s, i, cur) ==
    IF i > Len(s) THEN title_word(cur)
    ELSE IF Ch(s, i) \in Whitespace
         THEN LET e == RunEnd(s, i, Whitespace)
              IN title_word(cur) \o Sub(s, i, e - 1) \o TitleFrom(s, e, "")
    ELSE IF Ch(s, i) \in {"-", "/"}
         THEN title_word(cur) \o Ch(s, i) \o TitleFrom(s, i + 1, "")
    ELSE TitleFrom(s, i + 1, cur \o Ch(s, i))

smart_title(s) == IF s = "" THEN s ELSE TitleFrom(Strip(s), 1, "")

word_count(s) == Len(SplitWs(Strip(s)))

\* ------------------------------------------------------------------
\* schema.py: ExperienceItem
\* ------------------------------------------------------------------
\* ExperienceItem._strip (mode="before")
strip_before(v) == IF v.t = "str" THEN PyStr(Strip(v.s)) ELSE v

\* ExperienceItem._short_impact
short_impact(o) == IF o = None \/ o[1] = "" THEN o ELSE Some(CollapseWs(o[1]))

\* Optional[str] after a before-validator: None, a str, or a type error
OptStrField(v) ==
    CASE v.t \in {"none", "missing"} -> [ok |-> TRUE, v |-> None]
      [] v.t = "str" -> [ok |-> TRUE, v |-> Some(v.s)]
      [] OTHER -> [ok |-> FALSE, v |-> None]

NullItem == [client_or_project |-> "", role |-> None, impact |-> None]

\* ExperienceItem(client_or_project=cp, role=role, impact=impact): the
\* validated item, or ok = FALSE with the fields that failed
ExperienceItem(cp, role, impact) ==
    LET c == strip_before(cp)
        r == OptStrField(strip_before(role))
        m == OptStrField(strip_before(impact))
        cOk == c.t = "str" /\ Len(c.s) >= 2
        errors == (IF cOk THEN {} ELSE {"client_or_project"})
                  \cup (IF r.ok THEN {} ELSE {"role"})
                  \cup (IF m.ok THEN {} ELSE {"impact"})
    IN IF errors # {} THEN [ok |-> FALSE, errors |-> errors, item |-> NullItem]
       ELSE [ok |-> TRUE, errors |-> {},
             item |-> [client_or_project |-> c.s, role |-> r.v,
                       impact |-> short_impact(m.v)]]

\* an item of selected_experience: an ExperienceItem instance is taken as
\* it is, a dict goes through the ExperienceItem validators, anything else
\* is a type error
experience_entry(v) ==
    CASE v.t = "item" ->
            [ok |-> TRUE, errors |-> {},
             item |-> [client_or_project |-> v.l[1].s,
                       role |-> IF v.l[2].t = "str" THEN Some(v.l[2].s) ELSE None,
                       impact |-> IF v.l[3].t = "str" THEN Some(v.l[3].s) ELSE None]]
      [] v.t = "dict" -> ExperienceItem(v.l[1], v.l[2], v.l[3])
      [] OTHER -> [ok |-> FALSE, errors |-> {"type"}, item |-> NullItem]

RECURSIVE experience_list(_)
\* List[ExperienceItem]: [ok, v], v the validated items
experience_list(items) ==
    IF Len(items) = 0 THEN [ok |-> TRUE, v |-> <<>>]
    ELSE LET e == experience_entry(items[1])
             rest == experience_list(Tail(items))
         IN [ok |-> e.ok /\ rest.ok,
             v |-> IF e.ok /\ rest.ok THEN <<e.item>> \o rest.v ELSE <<>>]

\* ------------------------------------------------------------------
\* schema.py: Bio, the field validators
\* ------------------------------------------------------------------
RECURSIVE name_tokens(_)
\* [p.capitalize() if p.upper() not in ACRONYMS else p.upper() for p in ...]
name_tokens(ps) ==
    IF Len(ps) = 0 THEN <<>>
    ELSE <<IF Upper(ps[1]) \notin ACRONYMS THEN Capitalize(ps[1]) ELSE Upper(ps[1])>>
         \o name_tokens(Tail(ps))

\* Bio._name_strip on a str
name_strip(x) == Join(name_tokens(SplitWs(CollapseWs(x))), " ")

\* full_name: str = Field(..., min_length=2) behind _name_strip; kind says
\* which exception ends the construction
full_name_field(v) ==
    IF v.t = "missing" THEN [ok |-> FALSE, kind |-> "ValidationError", v |-> ""]
    ELSE IF v.t # "str" THEN [ok |-> FALSE, kind |-> "TypeError", v |-> ""]
    ELSE LET n == name_strip(v.s)
         IN IF Len(n) >= 2 THEN [ok |-> TRUE, kind |-> "", v |-> n]
            ELSE [ok |-> FALSE, kind |-> "ValidationError", v |-> ""]

\* Bio._title_case, then Optional[str]
title_field(v) ==
    IF v.t = "str" /\ Strip(v.s) # ""
    THEN [ok |-> TRUE, v |-> Some(smart_title(CollapseWs(v.s)))]
    ELSE OptStrField(v)

\* Bio._compact_whitespace, then Optional[str]
compact_field(v) ==
    IF v.t = "str"
    THEN LET c == CollapseWs(v.s)
         IN [ok |-> TRUE, v |-> IF c = "" THEN None ELSE Some(c)]
    ELSE OptStrField(v)

\* the characters EmailStr takes in an unquoted local part, dots aside
EmailAtext ==
    LetterSet \cup DigitSet
    \cup {"!", "#", "&", "*", "+", "/", "=", "?", "_", "{", "|", "}", "-"}

RECURSIVE SplitOn(_, _, _, _)
\* s[i:].split(c), cur being the piece read so far
SplitOn(s, i, c, cur) ==
    IF i > Len(s) THEN <<cur>>
    ELSE IF Ch(s, i) = c THEN <<cur>> \o SplitOn(s, i + 1, c, "")
    ELSE SplitOn(s, i + 1, c, cur \o Ch(s, i))

\* EmailStr: one '@'; the local part is dot-separated non-empty runs of
\* atext; the domain is at least two dot-separated labels of letters,
\* digits and inner hyphens, the last one not a number
EmailStrValid(x) ==
    LET ats == {i \in 1..Len(x) : Ch(x, i) = "@"}
    IN /\ Cardinality(ats) = 1
       /\ LET at == CHOOSE i \in ats : TRUE
              locals == SplitOn(Sub(x, 1, at - 1), 1, ".", "")
              labels == SplitOn(Sub(x, at + 1, Len(x)), 1, ".", "")
          IN /\ \A k \in 1..Len(locals) :
                    /\ locals[k] # ""
                    /\ CharsOf(locals[k]) \subseteq EmailAtext
             /\ Len(labels) >= 2
             /\ \A k \in 1..Len(labels) :
                    /\ labels[k] # ""
                    /\ CharsOf(labels[k]) \subseteq LetterSet \cup DigitSet \cup {"-"}
                    /\ Ch(labels[k], 1) # "-"
                    /\ Ch(labels[k], Len(labels[k])) # "-"
             /\ ~(CharsOf(labels[Len(labels)]) \subseteq DigitSet)

\* the value EmailStr keeps: the domain in lower case
EmailNormal(x) ==
    LET at == CHOOSE i \in 1..Len(x) : Ch(x, i) = "@"
    IN Sub(x, 1, at) \o Lower(Sub(x, at + 1, Len(x)))

\* email: Optional[EmailStr]
email_field(v) ==
    CASE v.t \in {"none", "missing"} -> [ok |-> TRUE, v |-> None]
      [] v.t = "str" /\ EmailStrValid(v.s) -> [ok |-> TRUE, v |-> Some(EmailNormal(v.s))]
      [] OTHER -> [ok |-> FALSE, v |-> None]

\* AnyUrl: scheme "://" authority, then the rest.  [ok, scheme, host, rest];
\* the host is the authority without user info and port, in lower case.
\* A URL without an authority (mailto:, file:///) is read as no URL here;
\* whether pydantic accepts one depends on its version.
UrlParse(x) ==
    LET seps == {i \in 1..Len(x) : Sub(x, i, i + 2) = "://"}
    IN IF seps = {} THEN [ok |-> FALSE, scheme |-> "", host |-> "", rest |-> ""]
       ELSE LET c == Min(seps)
                scheme == Sub(x, 1, c - 1)
                e == RunEnd(x, c + 3, CharsOf(x) \ {"/", "?", "#"})
                authority == Sub(x, c + 3, e - 1)
                ats == {i \in 1..Len(authority) : Ch(authority, i) = "@"}
                hostport == IF ats = {} THEN authority
                            ELSE Sub(authority, Max(ats) + 1, Len(authority))
                host == SplitOn(hostport, 1, ":", "")[1]
            IN [ok |-> /\ scheme # ""
                       /\ Ch(scheme, 1) \in LetterSet
                       /\ CharsOf(scheme) \subseteq LetterSet \cup DigitSet \cup {"+", "-", "."}
                       /\ host # ""
                       /\ CharsOf(host) \subseteq LetterSet \cup DigitSet \cup {"-", "."},
                scheme |-> Lower(scheme),
                host |-> Lower(host),
                rest |-> Sub(x, e, Len(x))]

\* the text of the AnyUrl that was parsed
UrlText(u) ==
    u.scheme \o "://" \o u.host \o (IF u.rest = "" THEN "/" ELSE u.rest)

\* variant: Optional[AnyUrl] without Bio._linkedin_only
linkedin_field_AnyHost(v) ==
    CASE v.t \in {"none", "missing"} -> [ok |-> TRUE, v |-> None]
      [] v.t = "str" ->
            LET u == UrlParse(v.s)
            IN IF u.ok THEN [ok |-> TRUE, v |-> Some(UrlText(u))]
               ELSE [ok |-> FALSE, v |-> None]
      [] OTHER -> [ok |-> FALSE, v |-> None]

\* variant: a link on another host is dropped instead of refused
linkedin_field_DropsForeign(v) ==
    CASE v.t \in {"none", "missing"} -> [ok |-> TRUE, v |-> None]
      [] v.t = "str" ->
            LET u == UrlParse(v.s)
            IN IF u.ok /\ Contains(u.host, "linkedin.com")
               THEN [ok |-> TRUE, v |-> Some(UrlText(u))]
               ELSE [ok |-> u.ok, v |-> None]
      [] OTHER -> [ok |-> FALSE, v |-> None]

\* linkedin_url: Optional[AnyUrl] and Bio._linkedin_only
linkedin_field(v) ==
    CASE v.t \in {"none", "missing"} -> [ok |-> TRUE, v |-> None]
      [] v.t = "str" ->
            LET u == UrlParse(v.s)
            IN IF u.ok /\ Contains(u.host, "linkedin.com")
               THEN [ok |-> TRUE, v |-> Some(UrlText(u))]
               ELSE [ok |-> FALSE, v |-> None]
      [] OTHER -> [ok |-> FALSE, v |-> None]

\* phonenumbers.format_number(num, NATIONAL) of a US number: the last ten
\* digits as (AAA) EEE-NNNN
NationalFormat(digits) ==
    LET d == Sub(digits, Len(digits) - 9, Len(digits))
    IN "(" \o Sub(d, 1, 3) \o ") " \o Sub(d, 4, 6) \o "-" \o Sub(d, 7, 10)

\* the three ways the optional phonenumbers package can answer
PhoneLibs == {"absent", "rejects", "formats"}

\* Bio._normalize_phone on an Optional[str].  lib: the package is not
\* installed ("absent"); parse raises or the number is invalid ("rejects");
\* the number is valid and is formatted ("formats", which takes the ten
\* national digits a US number has)
normalize_phone(o, lib) ==
    IF o = None \/ o[1] = "" THEN o
    ELSE LET s == DigitsPlus(o[1])
             digits == KeepFrom(s, 1, DigitSet)
         IN IF s = "" THEN None
            ELSE IF lib = "absent" THEN Some(s)
            ELSE IF lib = "formats" /\ Len(digits) >= 10 THEN Some(NationalFormat(digits))
            ELSE Some(s)

\* phone: Optional[str] and Bio._normalize_phone
phone_field(v, lib) ==
    LET f == OptStrField(v)
    IN IF f.ok THEN [ok |-> TRUE, v |-> normalize_phone(f.v, lib)] ELSE f

RECURSIVE list_clean_items(_)
\* the first loop of Bio._list_clean: the cleaned non-empty str items
list_clean_items(items) ==
    IF Len(items) = 0 THEN <<>>
    ELSE LET it == items[1]
             c == IF it.t = "str"
                  THEN StripChars(SubWsFrom(it.s, 1), {" ", BULLET, "-", "\t"})
                  ELSE ""
         IN (IF it.t = "str" /\ c # "" THEN <<c>> ELSE <<>>)
            \o list_clean_items(Tail(items))

RECURSIVE dedupe(_, _)
\* the second loop of Bio._list_clean: the first item of every lower-case key
dedupe(cleaned, seen) ==
    IF Len(cleaned) = 0 THEN <<>>
    ELSE LET key == Lower(cleaned[1])
         IN IF key \notin seen
            THEN <<cleaned[1]>> \o dedupe(Tail(cleaned), seen \cup {key})
            ELSE dedupe(Tail(cleaned), seen)

\* iterating a dict yields its keys
DictKeys(v) ==
    (IF v.l[1].t # "missing" THEN <<PyStr("client_or_project")>> ELSE <<>>)
    \o (IF v.l[2].t # "missing" THEN <<PyStr("role")>> ELSE <<>>)
    \o (IF v.l[3].t # "missing" THEN <<PyStr("impact")>> ELSE <<>>)

\* Bio._list_clean, then List[str]; iterating a value that is not iterable
\* raises TypeError
list_clean(v) ==
    IF ~Truthy(v) THEN [ok |-> TRUE, v |-> <<>>]
    ELSE IF v.t \in {"str", "list", "dict"}
    THEN [ok |-> TRUE,
          v |-> dedupe(list_clean_items(IF v.t = "str" THEN <<v>>
                                        ELSE IF v.t = "dict" THEN DictKeys(v)
                                        ELSE v.l), {})]
    ELSE [ok |-> FALSE, v |-> <<>>]

\* selected_experience: List[ExperienceItem]
experience_field(v) ==
    IF v.t = "list" THEN experience_list(v.l)
    ELSE IF v.t = "missing" THEN [ok |-> TRUE, v |-> <<>>]
    ELSE [ok |-> FALSE, v |-> <<>>]

BulletSeparators == {";", ENDASH, EMDASH}

\* variant: the cut is made whatever the number of words
trim_one_AnyLength(b) ==
    LET txt == CollapseWs(b)
    IN Sub(txt, 1, RunEnd(txt, 1, CharsOf(txt) \ BulletSeparators) - 1)

\* one bullet of trim_bullets
trim_one(b) ==
    LET txt == CollapseWs(b)
    IN IF word_count(txt) > WORD_LIMIT_BULLET
       THEN Sub(txt, 1, RunEnd(txt, 1, CharsOf(txt) \ BulletSeparators) - 1)
       ELSE txt

RECURSIVE trim_bullets(_)
trim_bullets(lst) ==
    IF Len(lst) = 0 THEN <<>> ELSE <<trim_one(lst[1])>> \o trim_bullets(Tail(lst))

BulletFields ==
    {"expertise_bullets", "education", "certifications", "affiliations", "awards"}

NullBio ==
    [full_name |-> "", current_title |-> None, department_or_practice |-> None,
     location |-> None, email |-> None, phone |-> None, linkedin_url |-> None,
     summary_paragraph |-> None, expertise_bullets |-> <<>>,
     selected_experience |-> <<>>, education |-> <<>>, certifications |-> <<>>,
     affiliations |-> <<>>, awards |-> <<>>]

\* what Bio(**in) answers once the field validators have run: [ok, kind,
\* errors, bio].  kind is the exception that ends the call and errors the
\* fields it reports: a TypeError raised inside a validator ends the call
\* at that field, a ValidationError collects every field that failed
BioAnswer(fn, ti, de, lo, em, ph, li, su, ex, se, ed, ce, af, aw) ==
    LET errors ==
            (IF fn.ok THEN {} ELSE {"full_name"})
            \cup (IF ti.ok THEN {} ELSE {"current_title"})
            \cup (IF de.ok THEN {} ELSE {"department_or_practice"})
            \cup (IF lo.ok THEN {} ELSE {"location"})
            \cup (IF em.ok THEN {} ELSE {"email"})
            \cup (IF ph.ok THEN {} ELSE {"phone"})
            \cup (IF li.ok THEN {} ELSE {"linkedin_url"})
            \cup (IF su.ok THEN {} ELSE {"summary_paragraph"})
            \cup (IF ex.ok THEN {} ELSE {"expertise_bullets"})
            \cup (IF se.ok THEN {} ELSE {"selected_experience"})
            \cup (IF ed.ok THEN {} ELSE {"education"})
            \cup (IF ce.ok THEN {} ELSE {"certifications"})
            \cup (IF af.ok THEN {} ELSE {"affiliations"})
            \cup (IF aw.ok THEN {} ELSE {"awards"})
        raised ==
            IF fn.kind = "TypeError" THEN {"full_name"}
            ELSE IF ~ex.ok THEN {"expertise_bullets"}
            ELSE IF ~ed.ok THEN {"education"}
            ELSE IF ~ce.ok THEN {"certifications"}
            ELSE IF ~af.ok THEN {"affiliations"}
            ELSE IF ~aw.ok THEN {"awards"}
            ELSE {}
    IN IF raised # {}
       THEN [ok |-> FALSE, kind |-> "TypeError", errors |-> raised, bio |-> NullBio]
       ELSE IF errors # {}
       THEN [ok |-> FALSE, kind |-> "ValidationError", errors |-> errors,
             bio |-> NullBio]
       ELSE [ok |-> TRUE, kind |-> "", errors |-> {},
             bio |-> [full_name |-> fn.v, current_title |-> ti.v,
                      department_or_practice |-> de.v, location |-> lo.v,
                      email |-> em.v, phone |-> ph.v, linkedin_url |-> li.v,
                      summary_paragraph |-> su.v, expertise_bullets |-> ex.v,
                      selected_experience |-> se.v, education |-> ed.v,
                      certifications |-> ce.v, affiliations |-> af.v,
                      awards |-> aw.v]]

\* the field validators of Bio(**in), in the order of the fields
BioFields(in, lib) ==
    BioAnswer(full_name_field(in.full_name),
              title_field(in.current_title),
              compact_field(in.department_or_practice),
              compact_field(in.location),
              email_field(in.email),
              phone_field(in.phone, lib),
              linkedin_field(in.linkedin_url),
              compact_field(in.summary_paragraph),
              list_clean(in.expertise_bullets),
              experience_field(in.selected_experience),
              list_clean(in.education),
              list_clean(in.certifications),
              list_clean(in.affiliations),
              list_clean(in.awards))

\* Bio._enforce_bullet_limits (mode="after"): plain assignments, no field
\* validator runs again; it runs only when every field validated
enforce_bullet_limits(r) ==
    IF r.ok
    THEN [r EXCEPT !.bio.expertise_bullets = trim_bullets(@),
                   !.bio.education = trim_bullets(@),
                   !.bio.certifications = trim_bullets(@),
                   !.bio.affiliations = trim_bullets(@),
                   !.bio.awards = trim_bullets(@)]
    ELSE r

\* Bio(**in)
Bio(in, lib) == enforce_bullet_limits(BioFields(in, lib))

\* ------------------------------------------------------------------
\* bounds and the documents the extractor is run on
\* ------------------------------------------------------------------
\* longest document made of arbitrary lines of LinePool
MaxLines == 3
\* most lines in the experience section of an experience document
MaxExp == 5
\* most filler lines in front of the name line of a name-scan document
MaxFill == 7
\* most lines of a contact document
MaxContact == 2

SeqsUpTo(S, n) == UNION {[1..k -> S] : k \in 0..n}

\* lines as read_docx_lines returns them: stripped and non-empty
LinePool ==
    {"Jane Doe", "SUMMARY", "Skills", "NOTES", "Leads AI programs.",
     "- Responsible AI"}

ExpPool == {"Acme Corp", "Led  rollout", "X"}

ContactPool ==
    {"jane.doe@example.com", "Mail a..b@x.com now", "Call 617-555-0100 today",
     "+16175550100", "https://www.linkedin.com/in/janedoe",
     "See HTTP://LinkedIn.com/in/j_d."}

ScenarioDoc ==
    <<"Jane Doe", "Senior Director", "SUMMARY", "Leads AI programs.", "EXPERTISE",
      "Responsible AI", "Responsible AI", "GenAI Strategy">>

RECURSIVE Repeat(_, _)
Repeat(x, n) == IF n = 0 THEN <<>> ELSE <<x>> \o Repeat(x, n - 1)

Docs ==
    SeqsUpTo(LinePool, MaxLines)
    \cup {ScenarioDoc}
    \cup {<<"EXPERIENCE">> \o e : e \in SeqsUpTo(ExpPool, MaxExp)}
    \cup {Repeat("Leads AI programs.", k) \o tl :
            k \in 0..MaxFill, tl \in {<<"Jane Doe">>, <<"Jane Doe", "VP Sales">>}}
    \cup {<<"Jane Doe">> \o c : c \in SeqsUpTo(ContactPool, MaxContact)}

\* ------------------------------------------------------------------
\* state
\* ------------------------------------------------------------------
VARIABLES
    mode,                \* which entry point this run is of
    pc,                  \* the statement the run is at
    phonelib,            \* how the optional phonenumbers package answers
    lines,               \* parse_bio_from_lines: the argument
    contacts,            \* email, linkedin, phone as detected
    full_name,           \* the local full_name
    current_title,       \* the local current_title
    ln_i,                \* split_sections: lines consumed by the for loop
    current_key,         \* split_sections: the cursor
    sections,            \* split_sections: the dict being filled
    fields,              \* summary_paragraph and the five cleaned lists
    exp_i,               \* the index i of the experience while loop
    selected_experience, \* the ExperienceItems built so far
    bio_in,              \* Bio(**kwargs): the keyword arguments
    ai_text,             \* ai_extract_bio_from_text: the argument text
    ai_data,             \* what openai_json returned
    payload,             \* the dict the reconciler hands to Bio
    prompt,              \* ollama_json, openai_json: the argument prompt
    debug,               \* ollama_json: the argument debug
    sdk,                 \* openai_json: the API key and the installed SDK
    calls,               \* the requests made to the completion service
    last_raw,            \* ollama_json: the local last_raw
    llm_out,             \* what ollama_json or openai_json returned or raised
    r_bio,               \* render_bio_to_docx: the argument bio
    plan,                \* render_bio_to_docx: the argument plan
    doc,                 \* the paragraphs of the Document so far
    hdr_i,               \* _render_header: entries of the order consumed
    sec_i,               \* section descriptors consumed
    saved,               \* the paragraphs of the file doc.save wrote
    result               \* what the call returned or raised

vars ==
    <<mode, pc, phonelib, lines, contacts, full_name, current_title, ln_i,
      current_key, sections, fields, exp_i, selected_experience, bio_in,
      ai_text, ai_data, payload, prompt, debug, sdk, calls, last_raw, llm_out,
      r_bio, plan, doc, hdr_i, sec_i, saved, result>>

\* the variables of each entry point
parseVars ==
    <<lines, contacts, full_name, current_title, ln_i, current_key, sections,
      fields, exp_i, selected_experience>>

bioVars == <<bio_in>>

aiVars == <<ai_text, ai_data, payload>>

llmVars == <<prompt, debug, sdk, calls, last_raw, llm_out>>

docVars == <<r_bio, plan, doc, hdr_i, sec_i, saved>>

NoResult == [ok |-> FALSE, kind |-> "", errors |-> {}, bio |-> NullBio]

NoContacts == [email |-> None, linkedin |-> None, phone |-> None]

NoFields ==
    [summary_paragraph |-> None, expertise_bullets |-> <<>>, education |-> <<>>,
     certifications |-> <<>>, affiliations |-> <<>>, awards |-> <<>>]

EmptySections == [k \in SectionKeys |-> <<>>]

BioKeys ==
    {"full_name", "current_title", "department_or_practice", "location", "email",
     "phone", "linkedin_url", "summary_paragraph", "expertise_bullets",
     "selected_experience", "education", "certifications", "affiliations",
     "awards"}

\* no keyword argument given
NoArgs == [k \in BioKeys |-> PyMissing]

\* the Bio constructor is not the entry point of this run
BioIdle == bio_in = NoArgs

\* the reconciler is not the entry point of this run
AIIdle ==
    /\ ai_text = ""
    /\ ai_data = PyMissing
    /\ payload = NoArgs

\* ollama_json, openai_json: nothing returned or raised yet
NoOut == [state |-> "running", kind |-> "", text |-> ""]

\* ollama_json and openai_json are not the entry point of this run
LLMIdle ==
    /\ prompt = ""
    /\ debug = FALSE
    /\ sdk = [key |-> FALSE, features |-> ""]
    /\ calls = <<>>
    /\ last_raw = ""
    /\ llm_out = NoOut

\* the header block of a plan with this line_order (None: the key is absent)
Header(order) ==
    [name_style |-> PyMissing, title_style |-> PyMissing,
     department_style |-> PyMissing, location_style |-> PyMissing,
     contact_style |-> PyMissing, line_order |-> order]

NoPlan == [header |-> Header(None), sections |-> <<>>]

\* render_bio_to_docx is not the entry point of this run
RenderIdle ==
    /\ r_bio = NullBio
    /\ plan = NoPlan
    /\ doc = <<>>
    /\ hdr_i = 0
    /\ sec_i = 0
    /\ saved = None

\* the locals of parse_bio_from_lines before its first statement
ParseIdle ==
    /\ contacts = NoContacts
    /\ full_name = "Unknown"
    /\ current_title = None
    /\ ln_i = 0
    /\ current_key = NoKey
    /\ sections = EmptySections
    /\ fields = NoFields
    /\ exp_i = 0
    /\ selected_experience = <<>>

InitParse ==
    /\ mode = "parse"
    /\ pc = "detect"
    /\ phonelib = "unasked"
    /\ lines \in Docs
    /\ ParseIdle
    /\ BioIdle
    /\ AIIdle
    /\ LLMIdle
    /\ RenderIdle
    /\ result = NoResult

\* ------------------------------------------------------------------
\* parse_bio_from_lines, statement by statement
\* ------------------------------------------------------------------
\* parser.py lines 94-97
DetectContacts ==
    /\ mode = "parse" /\ pc = "detect"
    /\ UNCHANGED <<bioVars, docVars, llmVars, aiVars>>
    /\ contacts' = [email |-> detect_email(Join(lines, "\n")),
                    linkedin |-> detect_linkedin(Join(lines, "\n")),
                    phone |-> detect_phone(lines)]
    /\ pc' = "name"
    /\ UNCHANGED <<mode, phonelib, lines, full_name, current_title, ln_i,
                   current_key, sections, fields, exp_i, selected_experience,
                   result>>

\* how many leading lines the name scan reads (lines[:6])
NAME_SCAN_LINES == 6

\* variant: the scan reads every line instead of lines[:6]
NameHits_AllLines(lns) == {k \in 1..Len(lns) : looks_like_name(lns[k])}

\* the 1-based indices of the name-like lines among lines[:6]
NameHits(lns) ==
    {k \in 1..Len(lns) : k <= NAME_SCAN_LINES /\ looks_like_name(lns[k])}

\* variant: the line after the name is taken as the title whatever it
\* looks like
ScanName_AnyTitle ==
    /\ mode = "parse" /\ pc = "name"
    /\ UNCHANGED <<bioVars, docVars, llmVars, aiVars>>
    /\ LET hits == {k \in 1..Len(lines) : k <= 6 /\ looks_like_name(lines[k])}
       IN IF hits = {}
          THEN UNCHANGED <<full_name, current_title>>
          ELSE LET k == Min(hits)
               IN /\ full_name' = Strip(lines[k])
                  /\ current_title' =
                        IF k + 1 <= Len(lines) THEN Some(Strip(lines[k + 1]))
                        ELSE current_title
    /\ pc' = "split"
    /\ UNCHANGED <<mode, phonelib, lines, contacts, ln_i, current_key, sections,
                   fields, exp_i, selected_experience, result>>

\* parser.py lines 99-106: the scan stops at the first name-like line
ScanName ==
    /\ mode = "parse" /\ pc = "name"
    /\ UNCHANGED <<bioVars, docVars, llmVars, aiVars>>
    /\ LET hits == NameHits(lines)
       IN IF hits = {}
          THEN UNCHANGED <<full_name, current_title>>
          ELSE LET k == Min(hits)
               IN /\ full_name' = Strip(lines[k])
                  /\ current_title' =
                        IF k + 1 <= Len(lines) /\ ~looks_like_name(lines[k + 1])
                        THEN Some(Strip(lines[k + 1]))
                        ELSE current_title
    /\ pc' = "split"
    /\ UNCHANGED <<mode, phonelib, lines, contacts, ln_i, current_key, sections,
                   fields, exp_i, selected_experience, result>>

\* variant: a short line that is no known heading clears the cursor and is
\* left out
SplitStep_ClearCursor ==
    /\ mode = "parse" /\ pc = "split"
    /\ UNCHANGED <<bioVars, docVars, llmVars, aiVars>>
    /\ ln_i < Len(lines)
    /\ LET ln == lines[ln_i + 1]
           key == classify_heading(ln)
       IN IF key # NoKey
          THEN /\ current_key' = key
               /\ UNCHANGED sections
          ELSE IF ShortHeadingShape(ln)
          THEN /\ current_key' = NoKey
               /\ UNCHANGED sections
          ELSE /\ UNCHANGED current_key
               /\ sections' =
                    IF current_key # NoKey
                    THEN [sections EXCEPT ![current_key] = Append(@, ln)]
                    ELSE sections
    /\ ln_i' = ln_i + 1
    /\ UNCHANGED <<mode, pc, phonelib, lines, contacts, full_name, current_title,
                   fields, exp_i, selected_experience, result>>

\* one iteration of the for loop of split_sections (parser.py lines 84-90)
SplitStep ==
    /\ mode = "parse" /\ pc = "split"
    /\ UNCHANGED <<bioVars, docVars, llmVars, aiVars>>
    /\ ln_i < Len(lines)
    /\ LET ln == lines[ln_i + 1]
           key == classify_heading(ln)
       IN IF key # NoKey
          THEN /\ current_key' = key
               /\ UNCHANGED sections
          ELSE /\ UNCHANGED current_key
               /\ sections' =
                    IF current_key # NoKey
                    THEN [sections EXCEPT ![current_key] = Append(@, ln)]
                    ELSE sections
    /\ ln_i' = ln_i + 1
    /\ UNCHANGED <<mode, pc, phonelib, lines, contacts, full_name, current_title,
                   fields, exp_i, selected_experience, result>>

\* parser.py lines 109-119, once split_sections has returned
CleanSections ==
    /\ mode = "parse" /\ pc = "split"
    /\ UNCHANGED <<bioVars, docVars, llmVars, aiVars>>
    /\ ln_i = Len(lines)
    /\ fields' =
          [summary_paragraph |->
              LET j == Strip(Join(sections["summary"], " "))
              IN IF j = "" THEN None ELSE Some(j),
           expertise_bullets |-> clean_bullets(sections["expertise"]),
           education |-> clean_bullets(sections["education"]),
           certifications |-> clean_bullets(sections["certifications"]),
           affiliations |-> clean_bullets(sections["affiliations"]),
           awards |-> clean_bullets(sections["awards"])]
    /\ exp_i' = 0
    /\ selected_experience' = <<>>
    /\ pc' = "exp"
    /\ UNCHANGED <<mode, phonelib, lines, contacts, full_name, current_title,
                   ln_i, current_key, sections, result>>

\* variant: exp_raw[i:i+2]
Chunk_Pairs(exp_raw, i) ==
    SubSeq(exp_raw, i + 1, IF i + 2 <= Len(exp_raw) THEN i + 2 ELSE Len(exp_raw))

\* exp_raw[i:i+3]
Chunk(exp_raw, i) ==
    SubSeq(exp_raw, i + 1, IF i + 3 <= Len(exp_raw) THEN i + 3 ELSE Len(exp_raw))

\* the ExperienceItem(...) call of parser.py lines 123-130
ChunkItem(chunk) ==
    ExperienceItem(PyStr(Strip(chunk[1])), PyStr(Strip(chunk[2])),
                   IF Len(chunk) > 2 THEN PyStr(Strip(chunk[3])) ELSE PyNone)

\* variant: i += 2
ExpWindow_Stride2 ==
    /\ mode = "parse" /\ pc = "exp"
    /\ UNCHANGED <<bioVars, docVars, llmVars, aiVars>>
    /\ exp_i < Len(sections["experience"])
    /\ \E chunk \in {Chunk(sections["experience"], exp_i)} :
          /\ Len(chunk) >= 2
          /\ \E made \in {ChunkItem(chunk)} :
                /\ made.ok
                /\ selected_experience' = Append(selected_experience, made.item)
    /\ exp_i' = exp_i + 2
    /\ UNCHANGED <<mode, pc, phonelib, lines, contacts, full_name, current_title,
                   ln_i, current_key, sections, fields, result>>

\* one iteration of the while loop that builds an entry (lines 120-131)
ExpWindow ==
    /\ mode = "parse" /\ pc = "exp"
    /\ UNCHANGED <<bioVars, docVars, llmVars, aiVars>>
    /\ exp_i < Len(sections["experience"])
    /\ \E chunk \in {Chunk(sections["experience"], exp_i)} :
          /\ Len(chunk) >= 2
          /\ \E made \in {ChunkItem(chunk)} :
                /\ made.ok
                /\ selected_experience' = Append(selected_experience, made.item)
    /\ exp_i' = exp_i + 3
    /\ UNCHANGED <<mode, pc, phonelib, lines, contacts, full_name, current_title,
                   ln_i, current_key, sections, fields, result>>

\* the same iteration when ExperienceItem raises: the call ends there
ExpRaise ==
    /\ mode = "parse" /\ pc = "exp"
    /\ UNCHANGED <<bioVars, docVars, llmVars, aiVars>>
    /\ exp_i < Len(sections["experience"])
    /\ \E chunk \in {Chunk(sections["experience"], exp_i)} :
          /\ Len(chunk) >= 2
          /\ \E made \in {ChunkItem(chunk)} :
                /\ ~made.ok
                /\ result' = [ok |-> FALSE, kind |-> "ValidationError",
                              errors |-> {"ExperienceItem." \o f : f \in made.errors},
                              bio |-> NullBio]
    /\ pc' = "failed"
    /\ UNCHANGED <<mode, phonelib, lines, contacts, full_name, current_title,
                   ln_i, current_key, sections, fields, exp_i, selected_experience>>

\* the loop ends: its condition fails, or the window holds fewer than 2
\* lines and the else branch breaks (lines 120, 132-133)
ExpEnd ==
    /\ mode = "parse" /\ pc = "exp"
    /\ UNCHANGED <<bioVars, docVars, llmVars, aiVars>>
    /\ \/ exp_i >= Len(sections["experience"])
       \/ Len(Chunk(sections["experience"], exp_i)) < 2
    /\ pc' = "build"
    /\ UNCHANGED <<mode, phonelib, lines, contacts, full_name, current_title,
                   ln_i, current_key, sections, fields, exp_i, selected_experience,
                   result>>

RECURSIVE PyItems(_)
\* the ExperienceItem instances as they are handed to Bio
PyItems(items) ==
    IF Len(items) = 0 THEN <<>>
    ELSE <<PyItem(PyStr(items[1].client_or_project), PyOpt(items[1].role),
                  PyOpt(items[1].impact))>> \o PyItems(Tail(items))

\* the keyword arguments of the Bio(...) call of parser.py lines 135-148
ParseBioArgs ==
    [full_name |-> PyStr(full_name),
     current_title |-> PyOpt(current_title),
     department_or_practice |-> PyMissing,
     location |-> PyMissing,
     email |-> PyOpt(contacts.email),
     phone |-> PyOpt(contacts.phone),
     linkedin_url |-> PyOpt(contacts.linkedin),
     summary_paragraph |-> PyOpt(fields.summary_paragraph),
     expertise_bullets |-> PyList(PyStrs(fields.expertise_bullets)),
     selected_experience |-> PyList(PyItems(selected_experience)),
     education |-> PyList(PyStrs(fields.education)),
     certifications |-> PyList(PyStrs(fields.certifications)),
     affiliations |-> PyList(PyStrs(fields.affiliations)),
     awards |-> PyList(PyStrs(fields.awards))]

\* return Bio(...): the answer of the phonenumbers package is the
\* environment's
BuildBio ==
    /\ mode = "parse" /\ pc = "build"
    /\ UNCHANGED <<bioVars, docVars, llmVars, aiVars>>
    /\ \E lib \in PhoneLibs :
          \E r \in {Bio(ParseBioArgs, lib)} :
              /\ phonelib' = lib
              /\ result' = r
              /\ pc' = IF r.ok THEN "done" ELSE "failed"
    /\ UNCHANGED <<mode, lines, contacts, full_name, current_title, ln_i,
                   current_key, sections, fields, exp_i, selected_experience>>

NextParse ==
    \/ DetectContacts
    \/ ScanName
    \/ SplitStep
    \/ CleanSections
    \/ ExpWindow
    \/ ExpRaise
    \/ ExpEnd
    \/ BuildBio

SpecParse == InitParse /\ [][NextParse]_vars

\* ------------------------------------------------------------------
\* clean_bullets as an entry point, called on a list and then on what
\* it returned
\* ------------------------------------------------------------------
\* most lines of a list handed to clean_bullets
MaxRaw == 2

\* lines with no, one and two leading glyphs, with and without blanks
RawPool ==
    {"item", "- item", "- - item", "*" \o BULLET \o "item", " " \o MIDDOT \o " item ",
     "-", "  "}

\* lines holds the argument raw, result the list returned last
InitClean ==
    /\ mode = "clean"
    /\ pc = "raw"
    /\ phonelib = "unasked"
    /\ lines \in SeqsUpTo(RawPool, MaxRaw)
    /\ ParseIdle
    /\ BioIdle
    /\ AIIdle
    /\ LLMIdle
    /\ RenderIdle
    /\ result = <<>>

\* clean_bullets(raw)
CleanOnce ==
    /\ mode = "clean" /\ pc = "raw"
    /\ result' = clean_bullets(lines)
    /\ pc' = "once"
    /\ UNCHANGED <<mode, phonelib, parseVars, bioVars, aiVars, llmVars, docVars>>

\* clean_bullets on the list the first call returned
CleanTwice ==
    /\ mode = "clean" /\ pc = "once"
    /\ result' = clean_bullets(result)
    /\ pc' = "twice"
    /\ UNCHANGED <<mode, phonelib, parseVars, bioVars, aiVars, llmVars, docVars>>

NextClean ==
    \/ CleanOnce
    \/ CleanTwice

SpecClean == InitClean /\ [][NextClean]_vars


\* ------------------------------------------------------------------
\* Bio(**kwargs) as an entry point: the field validators, then the
\* model validator
\* ------------------------------------------------------------------
\* most words in front of the separator of a long bullet
MaxWords == 17

RECURSIVE Words(_)
\* a text of n words
Words(n) == IF n <= 1 THEN "Built" ELSE Words(n - 1) \o " x"

\* a bullet of n + 1 words with a separator after the n-th
LongBullet(n, tl) == PyStr(Words(n) \o "; " \o tl)

ValidArgs ==
    [full_name |-> PyStr("jane  doe"),
     current_title |-> PyStr("vp  of sales"),
     department_or_practice |-> PyNone,
     location |-> PyMissing,
     email |-> PyStr("Jane.Doe@Example.COM"),
     phone |-> PyStr("+1 (617) 555-0100"),
     linkedin_url |-> PyStr("http://linkedin.com/in/jdoe"),
     summary_paragraph |-> PyStr(" Leads  AI programs. "),
     expertise_bullets |-> PyList(<<PyStr("AI"), PyStr("ai"), PyStr("ML")>>),
     selected_experience |->
        PyList(<<PyDict(PyStr(" Acme Corp "), PyStr("Lead"), PyStr("Cut  cost"))>>),
     education |-> PyList(<<>>),
     certifications |-> PyMissing,
     affiliations |-> PyNone,
     awards |-> PyStr("- Deans List")]

BulletChoices ==
    {PyList(<<>>), PyNone, PyInt("5"),
     PyStr("AI; ML"),
     PyList(<<PyStr("AI"), PyStr("ml"), PyStr("Ai"), PyStr("ML")>>),
     PyList(<<PyStr("- Cloud  strategy"), PyInt("7"), PyStr(" - ")>>)}
    \cup {PyList(<<LongBullet(n, "east"), LongBullet(n, "west")>>) :
             n \in {WORD_LIMIT_BULLET - 1, MaxWords}}
    \cup {PyList(<<PyStr(Words(n)), LongBullet(n, "east")>>) :
             n \in {WORD_LIMIT_BULLET - 1, MaxWords}}
    \cup {PyList(<<PyStr(Words(MaxWords) \o " " \o ENDASH \o " east")>>)}

\* the values each keyword argument is tried with
ArgChoices ==
    [full_name |->
        {PyStr("jane  doe"), PyStr("ai lead"), PyStr("a"), PyStr("  "), PyInt("5"),
         PyStr("ai  McDonald"), PyStr("jane DOE"), PyNone, PyMissing},
     current_title |-> {PyNone, PyStr("vp  of sales"), PyStr("  "), PyInt("5")},
     department_or_practice |-> {PyNone, PyStr(" Risk  Advisory "), PyStr("")},
     location |-> {PyMissing, PyStr("Boston,  MA"), PyInt("5")},
     email |->
        {PyNone, PyStr("Jane.Doe@Example.COM"), PyStr("not-an-email"),
         PyStr("a..b@x.com")},
     phone |-> {PyNone, PyStr("+1 (617) 555-0100"), PyStr("n/a"), PyStr(""), PyInt("5")},
     linkedin_url |->
        {PyNone, PyStr("http://linkedin.com/in/jdoe"), PyStr("http://example.com/in/jdoe"),
         PyStr("linkedin.com/in/jd"), PyStr("HTTPS://WWW.LinkedIn.com")},
     summary_paragraph |-> {PyNone, PyStr(" Leads  AI programs. "), PyStr(" ")},
     expertise_bullets |-> BulletChoices,
     selected_experience |->
        {PyList(<<>>), PyMissing, PyNone,
         PyList(<<PyDict(PyStr(" Acme Corp "), PyStr("Lead"), PyStr("Cut  cost"))>>),
         PyList(<<PyDict(PyStr("Acme Corp"), PyMissing, PyNone),
                  PyDict(PyStr(" X "), PyStr("Lead"), PyMissing)>>),
         PyList(<<PyDict(PyMissing, PyStr("Lead"), PyMissing)>>),
         PyList(<<PyDict(PyStr("Acme Corp"), PyInt("5"), PyMissing)>>),
         PyList(<<PyStr("Acme Corp")>>)},
     education |-> BulletChoices,
     certifications |-> {PyMissing, PyList(<<PyStr("CFA"), PyStr("cfa")>>)},
     affiliations |-> {PyNone, PyStr("IEEE")},
     awards |-> {PyStr("- Deans List"), PyList(<<>>)}]

\* ValidArgs with up to two arguments replaced
BioInputs ==
    UNION {{[[ValidArgs EXCEPT ![f] = a] EXCEPT ![g] = b] :
               a \in ArgChoices[f], b \in ArgChoices[g]} :
           f \in BioKeys, g \in BioKeys}

InitBio ==
    /\ mode = "bio"
    /\ pc = "validate"
    /\ phonelib = "unasked"
    /\ lines = <<>>
    /\ ParseIdle
    /\ bio_in \in BioInputs
    /\ AIIdle
    /\ LLMIdle
    /\ RenderIdle
    /\ result = NoResult

\* the field validators of schema.py lines 59-161 run on the arguments
ValidateFields ==
    /\ mode = "bio" /\ pc = "validate"
    /\ \E lib \in PhoneLibs :
          \E r \in {BioFields(bio_in, lib)} :
              /\ phonelib' = lib
              /\ result' = r
              /\ pc' = IF r.ok THEN "after" ELSE "failed"
    /\ UNCHANGED <<mode, parseVars, bioVars, docVars, llmVars, aiVars>>

\* the model validator of schema.py lines 164-182 runs on the instance
EnforceLimits ==
    /\ mode = "bio" /\ pc = "after"
    /\ result' = enforce_bullet_limits(result)
    /\ pc' = "done"
    /\ UNCHANGED <<mode, phonelib, parseVars, bioVars, docVars, llmVars, aiVars>>

NextBio ==
    \/ ValidateFields
    \/ EnforceLimits

SpecBio == InitBio /\ [][NextBio]_vars

\* ------------------------------------------------------------------
\* extractor_ai.py: ai_extract_bio_from_text
\* ------------------------------------------------------------------
ListKeys == BulletFields \cup {"selected_experience"}

\* the payload of lines 28-43
Template == [k \in BioKeys |-> IF k \in ListKeys THEN PyList(<<>>) ELSE PyNone]

\* what openai_json hands back: a JSON object [t |-> "object", d |-> its
\* entries], d[k] being PyMissing for a key the object does not hold and
\* "nickname" a key the schema does not know; or a JSON value that is no
\* object
DataKeys == BioKeys \cup {"nickname"}

JsonObject(d) == [t |-> "object", d |-> d]

\* lines 44-47: the keys of the payload that data holds are copied
CopyKnownKeys(data) ==
    IF data.t # "object" THEN Template
    ELSE [k \in BioKeys |-> IF data.d[k].t # "missing" THEN data.d[k] ELSE Template[k]]

RECURSIVE StripNonEmpty(_)
\* [ln.strip() for ln in ... if ln.strip()]
StripNonEmpty(lns) ==
    IF Len(lns) = 0 THEN <<>>
    ELSE (IF Strip(lns[1]) # "" THEN <<Strip(lns[1])>> ELSE <<>>)
         \o StripNonEmpty(Tail(lns))

\* line 51, for a text whose line breaks are "\n"
TextLines(text) == StripNonEmpty(SplitOn(text, 1, "\n", ""))

\* how many lines the name repair reads (lines[:8])
NAME_REPAIR_LINES == 8

\* lines 50-57 on the payload p
repair_name(p, text) ==
    IF ~Truthy(p.full_name) \/ (p.full_name.t = "str" /\ Strip(p.full_name.s) = "")
    THEN LET lns == TextLines(text)
             hits == {k \in 1..Len(lns) :
                        k <= NAME_REPAIR_LINES /\ looks_like_name(lns[k])}
         IN IF hits # {} THEN [p EXCEPT !.full_name = PyStr(Strip(lns[Min(hits)]))]
            ELSE IF ~Truthy(p.full_name) THEN [p EXCEPT !.full_name = PyStr("Unknown")]
            ELSE p
    ELSE p

RECURSIVE ReSplit_BeforeCapital(_, _, _)
\* the split with the pattern r"[;\n]|,\s+(?=[A-Z])": a comma splits only
\* before a capital letter
ReSplit_BeforeCapital(s, i, cur) ==
    IF i > Len(s) THEN <<cur>>
    ELSE IF Ch(s, i) \in {";", "\n"} THEN <<cur>> \o ReSplit_BeforeCapital(s, i + 1, "")
    ELSE IF /\ Ch(s, i) = ","
            /\ RunEnd(s, i + 1, Whitespace) > i + 1
            /\ Ch(s, RunEnd(s, i + 1, Whitespace)) \in UpperSet
         THEN <<cur>> \o ReSplit_BeforeCapital(s, RunEnd(s, i + 1, Whitespace), "")
    ELSE ReSplit_BeforeCapital(s, i + 1, cur \o Ch(s, i))

RECURSIVE ReSplit(_, _, _)
\* re.split(r"[;\n]|,\s+(?=[A-Za-z])", s[i:]), cur being the piece read so
\* far
ReSplit(s, i, cur) ==
    IF i > Len(s) THEN <<cur>>
    ELSE IF Ch(s, i) \in {";", "\n"} THEN <<cur>> \o ReSplit(s, i + 1, "")
    ELSE IF /\ Ch(s, i) = ","
            /\ RunEnd(s, i + 1, Whitespace) > i + 1
            /\ Ch(s, RunEnd(s, i + 1, Whitespace)) \in LetterSet
         THEN <<cur>> \o ReSplit(s, RunEnd(s, i + 1, Whitespace), "")
    ELSE ReSplit(s, i + 1, cur \o Ch(s, i))

RECURSIVE SplitItems(_)
\* [s.strip(" \u2022-\t") for s in pieces if s.strip()]
SplitItems(pieces) ==
    IF Len(pieces) = 0 THEN <<>>
    ELSE (IF Strip(pieces[1]) # ""
          THEN <<PyStr(StripChars(pieces[1], {" ", BULLET, "-", "\t"}))>>
          ELSE <<>>)
         \o SplitItems(Tail(pieces))

\* lines 61-66 on one list field
coerce_list(v) ==
    IF v.t = "str" THEN PyList(SplitItems(ReSplit(v.s, 1, "")))
    ELSE IF v.t = "none" THEN PyList(<<>>)
    ELSE v

\* x or None
OrNone(v) == IF Truthy(v) THEN v ELSE PyNone

RECURSIVE norm_items(_)
\* the loop of lines 74-82: [ok, l]; ok is FALSE when .strip() is called
\* on a label that is no str (AttributeError)
norm_items(items) ==
    IF Len(items) = 0 THEN [ok |-> TRUE, l |-> <<>>]
    ELSE LET it == items[1]
             rest == norm_items(Tail(items))
         IN IF it.t = "dict"
            THEN IF Truthy(it.l[1]) /\ it.l[1].t # "str"
                 THEN [ok |-> FALSE, l |-> <<>>]
                 ELSE [ok |-> rest.ok,
                       l |-> <<PyDict(PyStr(IF Truthy(it.l[1]) THEN Strip(it.l[1].s) ELSE ""),
                                      OrNone(it.l[2]), OrNone(it.l[3]))>> \o rest.l]
            ELSE IF it.t = "str"
            THEN [ok |-> rest.ok,
                  l |-> <<PyDict(PyStr(Strip(it.s)), PyNone, PyNone)>> \o rest.l]
            ELSE rest

\* lines 69-85: [ok, v]
normalize_experience(se) ==
    IF se.t = "dict" THEN [ok |-> TRUE, v |-> PyList(<<se>>)]
    ELSE IF se.t = "list"
    THEN [ok |-> norm_items(se.l).ok, v |-> PyList(norm_items(se.l).l)]
    ELSE [ok |-> TRUE, v |-> PyList(<<>>)]

\* the JSON object the reconciler is tried on, and the values each of its
\* keys, and the text, are replaced with
ValidData ==
    [k \in DataKeys |-> IF k = "nickname" THEN PyMissing ELSE ValidArgs[k]]

DataChoices ==
    [full_name |->
        {PyMissing, PyNone, PyStr(""), PyStr("  "), PyStr("jane  doe"), PyInt("5"),
         PyInt("0")},
     current_title |-> {PyMissing, PyStr("cto"), PyInt("5")},
     department_or_practice |-> {PyMissing, PyStr(" Risk  Advisory ")},
     location |-> {PyNone, PyStr("Boston,  MA")},
     email |-> {PyMissing, PyStr("jd@example.com"), PyStr("not-an-email")},
     phone |-> {PyMissing, PyStr("617-555-0100"), PyInt("5")},
     linkedin_url |->
        {PyNone, PyStr("https://www.linkedin.com/in/jd"), PyStr("linkedin.com/in/jd")},
     summary_paragraph |-> {PyMissing, PyStr("")},
     expertise_bullets |->
        {PyMissing, PyNone, PyInt("5"),
         PyStr("AI; ML, Cloud,data\n- NLP"),
         PyStr("Risk, 5G,  ai;; - ;ML"),
         PyList(<<PyStr("AI"), PyStr("ai"), PyInt("7")>>)},
     selected_experience |->
        {PyMissing, PyNone, PyStr("Acme Corp"),
         PyDict(PyStr(" Acme Corp "), PyStr("Lead"), PyMissing),
         PyDict(PyStr("X"), PyMissing, PyMissing),
         PyList(<<PyDict(PyStr(" Acme Corp "), PyStr(""), PyStr("Cut  cost"))>>),
         PyList(<<PyDict(PyMissing, PyStr("Lead"), PyMissing)>>),
         PyList(<<PyDict(PyInt("5"), PyNone, PyNone)>>),
         PyList(<<PyStr(" Acme Corp "), PyInt("5")>>),
         PyList(<<PyStr("X")>>)},
     education |-> {PyMissing, PyStr("MBA, Wharton; BS")},
     certifications |-> {PyNone, PyList(<<PyStr("CFA")>>)},
     affiliations |-> {PyMissing, PyNone},
     awards |-> {PyList(<<>>), PyStr("- Deans List")},
     nickname |-> {PyMissing, PyStr("JD")},
     text |->
        {PyStr(""), PyStr("see the notes\n\n  Jane Doe  \nVP Sales")}
        \cup {PyStr(Join(Repeat("memo", k) \o <<"Jane Doe">>, "\n")) :
                 k \in {0, NAME_REPAIR_LINES - 1, NAME_REPAIR_LINES}}]

\* the input in with its text, or the key f of its object, replaced
Put(in, f, a) ==
    IF f = "text" THEN [in EXCEPT !.text = a.s]
    ELSE [in EXCEPT !.data = JsonObject([in.data.d EXCEPT ![f] = a])]

\* a text and a JSON object: the valid ones with up to two parts replaced
AIInputs ==
    UNION {{Put(Put([text |-> "Jane Doe\nVP Sales", data |-> JsonObject(ValidData)],
                    f, a), g, b) :
               a \in DataChoices[f], b \in DataChoices[g]} :
           f \in DataKeys \cup {"text"}, g \in DataKeys \cup {"text"}}

\* JSON values that are no object
NonObjects == {PyList(<<>>), PyStr("n/a")}

NoData == PyMissing

InitAI ==
    /\ mode = "ai"
    /\ pc = "call"
    /\ phonelib = "unasked"
    /\ lines = <<>>
    /\ ParseIdle
    /\ BioIdle
    /\ ai_text \in {in.text : in \in AIInputs}
    /\ ai_data = NoData
    /\ payload = NoArgs
    /\ LLMIdle
    /\ RenderIdle
    /\ result = NoResult

\* line 26: openai_json returns a JSON value
AICall ==
    /\ mode = "ai" /\ pc = "call"
    /\ ai_data' \in {in.data : in \in {x \in AIInputs : x.text = ai_text}}
                    \cup NonObjects
    /\ pc' = "copy"
    /\ UNCHANGED <<mode, phonelib, parseVars, bioVars, docVars, llmVars, ai_text, payload, result>>

\* line 26: openai_json raises (no API key, no JSON in the answer, the
\* service fails) and the call ends with that exception
AICallRaises ==
    /\ mode = "ai" /\ pc = "call"
    /\ result' = [ok |-> FALSE, kind |-> "openai_json", errors |-> {}, bio |-> NullBio]
    /\ pc' = "failed"
    /\ UNCHANGED <<mode, phonelib, parseVars, bioVars, docVars, llmVars, aiVars>>

\* lines 28-47
AICopy ==
    /\ mode = "ai" /\ pc = "copy"
    /\ payload' = CopyKnownKeys(ai_data)
    /\ pc' = "name"
    /\ UNCHANGED <<mode, phonelib, parseVars, bioVars, docVars, llmVars, ai_text, ai_data, result>>

\* lines 49-57
AIRepairName ==
    /\ mode = "ai" /\ pc = "name"
    /\ payload' = repair_name(payload, ai_text)
    /\ pc' = "lists"
    /\ UNCHANGED <<mode, phonelib, parseVars, bioVars, docVars, llmVars, ai_text, ai_data, result>>

\* lines 59-66
AICoerceLists ==
    /\ mode = "ai" /\ pc = "lists"
    /\ payload' = [k \in BioKeys |->
                     IF k \in BulletFields THEN coerce_list(payload[k]) ELSE payload[k]]
    /\ pc' = "experience"
    /\ UNCHANGED <<mode, phonelib, parseVars, bioVars, docVars, llmVars, ai_text, ai_data, result>>

\* lines 68-85
AINormalizeExperience ==
    /\ mode = "ai" /\ pc = "experience"
    /\ \E n \in {normalize_experience(payload.selected_experience)} :
          IF n.ok
          THEN /\ payload' = [payload EXCEPT !.selected_experience = n.v]
               /\ pc' = "construct"
               /\ UNCHANGED result
          ELSE /\ result' = [ok |-> FALSE, kind |-> "AttributeError",
                             errors |-> {"selected_experience"}, bio |-> NullBio]
               /\ pc' = "failed"
               /\ UNCHANGED payload
    /\ UNCHANGED <<mode, phonelib, parseVars, bioVars, docVars, llmVars, ai_text, ai_data>>

\* lines 87-91: bio = Bio(**payload); return bio
AIConstruct ==
    /\ mode = "ai" /\ pc = "construct"
    /\ \E lib \in PhoneLibs :
          \E r \in {Bio(payload, lib)} :
              /\ phonelib' = lib
              /\ result' = r
              /\ pc' = IF r.ok THEN "done" ELSE "failed"
    /\ UNCHANGED <<mode, parseVars, bioVars, docVars, llmVars, aiVars>>

NextAI ==
    \/ AICall
    \/ AICallRaises
    \/ AICopy
    \/ AIRepairName
    \/ AICoerceLists
    \/ AINormalizeExperience
    \/ AIConstruct

SpecAI == InitAI /\ [][NextAI]_vars

\* ------------------------------------------------------------------
\* llm_client.py and llm_client_openai.py: JSON out of a completion
\* ------------------------------------------------------------------
\* the backquote, which a string of this module cannot hold
BACKTICK == "#"

FENCE == BACKTICK \o BACKTICK \o BACKTICK

\* the whitespace json.loads skips
JsonWs == {" ", "\t", "\n", "\r"}

\* a JSON string at index i (no escape sequence): the index after it, or 0
JsonStringEnd(s, i) ==
    IF Ch(s, i) # "\"" THEN 0
    ELSE LET j == RunEnd(s, i + 1, CharsOf(s) \ {"\"", "\\", "\n", "\t", "\r"})
         IN IF Ch(s, j) = "\"" THEN j + 1 ELSE 0

\* a JSON number at index i: the index after it, or 0
JsonNumberEnd(s, i) ==
    LET a == IF Ch(s, i) = "-" THEN i + 1 ELSE i
        b == IF Ch(s, a) = "0" THEN a + 1 ELSE RunEnd(s, a, DigitSet)
        c == IF Ch(s, b) = "." /\ RunEnd(s, b + 1, DigitSet) > b + 1
             THEN RunEnd(s, b + 1, DigitSet) ELSE b
        d == IF Ch(s, c + 1) \in {"+", "-"} THEN c + 2 ELSE c + 1
        e == IF Ch(s, c) \in {"e", "E"} /\ RunEnd(s, d, DigitSet) > d
             THEN RunEnd(s, d, DigitSet) ELSE c
    IN IF b = a THEN 0 ELSE e

JsonLiterals == <<"true", "false", "null", "NaN", "Infinity", "-Infinity">>

\* one of the literals json.loads knows at index i: the index after it, or 0
JsonLiteralEnd(s, i) ==
    LET hit == {k \in 1..Len(JsonLiterals) :
                   Sub(s, i, i + Len(JsonLiterals[k]) - 1) = JsonLiterals[k]}
    IN IF hit = {} THEN 0 ELSE i + Len(JsonLiterals[Min(hit)])

RECURSIVE JsonValueEnd(_, _), JsonMembersEnd(_, _), JsonElementsEnd(_, _)
\* a JSON value at index i, whitespace before it skipped: the index after
\* it, or 0 when there is none
JsonValueEnd(s, i) ==
    LET j == RunEnd(s, i, JsonWs)
        c == Ch(s, j)
    IN IF c = "{"
       THEN (IF Ch(s, RunEnd(s, j + 1, JsonWs)) = "}"
             THEN RunEnd(s, j + 1, JsonWs) + 1
             ELSE JsonMembersEnd(s, j + 1))
       ELSE IF c = "["
       THEN (IF Ch(s, RunEnd(s, j + 1, JsonWs)) = "]"
             THEN RunEnd(s, j + 1, JsonWs) + 1
             ELSE JsonElementsEnd(s, j + 1))
       ELSE IF c = "\"" THEN JsonStringEnd(s, j)
       ELSE IF JsonLiteralEnd(s, j) > 0 THEN JsonLiteralEnd(s, j)
       ELSE JsonNumberEnd(s, j)

\* the members of an object from index i to its closing brace
JsonMembersEnd(s, i) ==
    LET k == JsonStringEnd(s, RunEnd(s, i, JsonWs))
        colon == RunEnd(s, k, JsonWs)
        v == IF k = 0 \/ Ch(s, colon) # ":" THEN 0 ELSE JsonValueEnd(s, colon + 1)
        after == RunEnd(s, v, JsonWs)
    IN IF v = 0 THEN 0
       ELSE IF Ch(s, after) = "}" THEN after + 1
       ELSE IF Ch(s, after) = "," THEN JsonMembersEnd(s, after + 1)
       ELSE 0

\* the elements of an array from index i to its closing bracket
JsonElementsEnd(s, i) ==
    LET v == JsonValueEnd(s, i)
        after == RunEnd(s, v, JsonWs)
    IN IF v = 0 THEN 0
       ELSE IF Ch(s, after) = "]" THEN after + 1
       ELSE IF Ch(s, after) = "," THEN JsonElementsEnd(s, after + 1)
       ELSE 0

\* what kind of JSON value starts the text
JsonKind(s) ==
    LET c == Ch(s, RunEnd(s, 1, JsonWs))
    IN IF c = "{" THEN "dict" ELSE IF c = "[" THEN "list"
       ELSE IF c = "\"" THEN "str" ELSE "scalar"

\* json.loads(text): the text is one JSON value and nothing else
json_loads(text) ==
    LET e == JsonValueEnd(text, 1)
    IN IF e > 0 /\ RunEnd(text, e, JsonWs) = Len(text) + 1
       THEN [ok |-> TRUE, kind |-> JsonKind(text), text |-> text]
       ELSE [ok |-> FALSE, kind |-> "JSONDecodeError", text |-> text]

RECURSIVE RemoveFences(_, _)
\* re.sub(r"^<FENCE>(?:json)?\s*|<FENCE>$", "", s, flags=re.I | re.M) from
\* index i on
RemoveFences(s, i) ==
    IF i > Len(s) THEN ""
    ELSE IF Sub(s, i, i + 2) = FENCE /\ (i = 1 \/ Ch(s, i - 1) = "\n")
    THEN RemoveFences(s, RunEnd(s, IF MatchCI(s, i + 3, "json") THEN i + 7 ELSE i + 3,
                                Whitespace))
    ELSE IF Sub(s, i, i + 2) = FENCE /\ (i + 3 > Len(s) \/ Ch(s, i + 3) = "\n")
    THEN RemoveFences(s, i + 3)
    ELSE Ch(s, i) \o RemoveFences(s, i + 1)

\* llm_client.py lines 7-27, llm_client_openai.py lines 24-41: the text as
\* it is, then without code fences; the search for a brace block that
\* follows uses (?R), which re.search refuses with re.error on any text
extract_json_block(text) ==
    IF json_loads(text).ok THEN json_loads(text)
    ELSE IF json_loads(Strip(RemoveFences(Strip(text), 1))).ok
    THEN json_loads(Strip(RemoveFences(Strip(text), 1)))
    ELSE [ok |-> FALSE, kind |-> "re.error", text |-> text]

\* what the completion service may answer
Completions ==
    {"{\"full_name\": \"Jane Doe\"}",
     FENCE \o "json\n{\"full_name\": \"Jane Doe\"}\n" \o FENCE,
     "Sure: {\"full_name\": \"Jane Doe\"}",
     "{\"full_name\": \"Jane Doe\",}",
     "[]",
     ""}

Prompts == {"BIO TEXT:\nJane Doe", "BIO TEXT:\nmemo"}

\* one request: which endpoint, the format asked for, the system message,
\* the prompt, and the text that came back (None when the request raised)
Request(api, format, system, text, answer) ==
    [api |-> api, format |-> format, system |-> system, prompt |-> text,
     answer |-> answer]

Returned(j) == [state |-> "returned", kind |-> j.kind, text |-> j.text]

Raised(kind, text) == [state |-> "raised", kind |-> kind, text |-> text]

\* ---- llm_client.py: ollama_json ----
\* lines 65-68
REINFORCED == "Return ONLY a JSON object. No explanations, no backticks, no extra keys.\n"

reinforced(p) == REINFORCED \o p

\* lines 78-84
fixer(raw) ==
    "Convert the following into VALID JSON only. Keep keys as in the schema. "
    \o "No commentary, no code fences.\n" \o "-----\n" \o raw \o "\n" \o "-----"

\* the three try blocks in the order of the function body
Ladder == <<"strict", "reinforced", "fixer">>

\* the payload each try block posts: lines 51-57, 69-70, 85
OllamaRequest(step, answer) ==
    IF step = "strict" THEN Request("generate", "json", "", prompt, answer)
    ELSE IF step = "reinforced"
    THEN Request("generate", "", "", reinforced(prompt), answer)
    ELSE Request("generate", "", "", fixer(last_raw), answer)

\* where a failed try block leaves the function: nothing is handled
\* before the last block
AfterFailure_GiveUp(step) == "failed"

\* where a failed try block leaves the function: `except Exception: pass`
\* falls through to the next block, the last block raises
AfterFailure(step) ==
    IF step = "strict" THEN "reinforced"
    ELSE IF step = "reinforced" THEN "fixer"
    ELSE "failed"

\* lines 89-92
NoJsonFound ==
    IF debug THEN Raised("ValueError", "No JSON found.\nRAW:\n" \o last_raw')
    ELSE Raised("ValueError", "No JSON found in model output")

\* one try block: _generate posts the payload and either raises or returns
\* the response text, which _extract_json_block then reads
OllamaTry(step) ==
    /\ mode = "ollama" /\ pc = step
    /\ \E answer \in {None} \cup {Some(c) : c \in Completions} :
          /\ calls' = Append(calls, OllamaRequest(step, answer))
          /\ last_raw' = IF answer = None THEN last_raw ELSE answer[1]
          /\ IF answer # None /\ extract_json_block(answer[1]).ok
             THEN /\ llm_out' = Returned(extract_json_block(answer[1]))
                  /\ pc' = "done"
             ELSE /\ pc' = AfterFailure(step)
                  /\ llm_out' = IF AfterFailure(step) = "failed"
                                THEN NoJsonFound ELSE llm_out
    /\ UNCHANGED <<mode, phonelib, parseVars, bioVars, docVars, aiVars, prompt, debug, sdk,
                   result>>

\* lines 58-62
OllamaStrict == OllamaTry("strict")

\* lines 64-75
OllamaReinforced == OllamaTry("reinforced")

\* lines 77-92
OllamaFixer == OllamaTry("fixer")

InitOllama ==
    /\ mode = "ollama"
    /\ pc = "strict"
    /\ phonelib = "unasked"
    /\ lines = <<>>
    /\ ParseIdle
    /\ BioIdle
    /\ AIIdle
    /\ prompt \in Prompts
    /\ debug \in BOOLEAN
    /\ sdk = [key |-> FALSE, features |-> ""]
    /\ calls = <<>>
    /\ last_raw = ""
    /\ llm_out = NoOut
    /\ RenderIdle
    /\ result = NoResult

NextOllama ==
    \/ OllamaStrict
    \/ OllamaReinforced
    \/ OllamaFixer

SpecOllama == InitOllama /\ [][NextOllama]_vars

\* ---- llm_client_openai.py: openai_json ----
\* what the installed openai package offers: everything the function
\* asks for, no response_format argument, no output_text on a response,
\* no responses API at all
SdkFeatures == {"full", "no_response_format", "no_output_text", "no_responses"}

\* lines 75 and 89
SYSTEM == "Return ONLY valid JSON. No commentary, no code fences."

\* lines 24-41: the same steps as _extract_json_block
parse_json_loose(text) == extract_json_block(text)

\* the except clauses of each tier: lines 63-68, lines 81-83, none
Handled(tier, kind) ==
    \/ tier = 1 /\ kind \in {"TypeError", "AttributeError"}
    \/ tier = 2 /\ kind = "AttributeError"

\* the create call of the tier gets as far as the service: line 56 fails
\* before that without responses or response_format, line 72 without
\* responses
Reaches(tier, features) ==
    IF tier = 1 THEN features \notin {"no_responses", "no_response_format"}
    ELSE IF tier = 2 THEN features # "no_responses"
    ELSE TRUE

\* the request each tier sends: lines 56-61, 72-79, 86-93
OpenAIRequest(tier, answer) ==
    IF tier = 1 THEN Request("responses", "json_object", "", prompt, answer)
    ELSE IF tier = 2 THEN Request("responses", "", SYSTEM, prompt, answer)
    ELSE Request("chat", "", SYSTEM, prompt, answer)

\* how each tier reads the text: line 62, line 80, line 94
TierParse(tier, text) ==
    IF tier = 1 THEN json_loads(text) ELSE parse_json_loose(text)

\* the exception a tier ends with, "" when it returns
TierRaises(tier, features, answer) ==
    IF ~Reaches(tier, features)
    THEN (IF features = "no_response_format" THEN "TypeError" ELSE "AttributeError")
    ELSE IF answer = None THEN "APIError"
    ELSE IF tier < 3 /\ features = "no_output_text" THEN "AttributeError"
    ELSE IF TierParse(tier, answer[1]).ok THEN ""
    ELSE TierParse(tier, answer[1]).kind

TierPc == <<"tier1", "tier2", "tier3", "failed">>

\* one tier: it returns, or an except clause takes the exception on to the
\* next tier, or the exception leaves openai_json
OpenAITier(tier) ==
    /\ mode = "openai" /\ pc = TierPc[tier]
    /\ \E answer \in IF Reaches(tier, sdk.features)
                      THEN {None} \cup {Some(c) : c \in Completions}
                      ELSE {None} :
          \E kind \in {TierRaises(tier, sdk.features, answer)} :
              /\ calls' = IF Reaches(tier, sdk.features)
                          THEN Append(calls, OpenAIRequest(tier, answer))
                          ELSE calls
              /\ pc' = IF kind = "" THEN "done"
                       ELSE IF Handled(tier, kind) THEN TierPc[tier + 1]
                       ELSE "failed"
              /\ llm_out' = IF kind = "" THEN Returned(TierParse(tier, answer[1]))
                            ELSE IF Handled(tier, kind) THEN llm_out
                            ELSE Raised(kind, "")
    /\ UNCHANGED <<mode, phonelib, parseVars, bioVars, docVars, aiVars, prompt, debug, sdk,
                   last_raw, result>>

\* line 52: _client() raises when no API key is found
OpenAIClient ==
    /\ mode = "openai" /\ pc = "client"
    /\ pc' = IF sdk.key THEN "tier1" ELSE "failed"
    /\ llm_out' = IF sdk.key THEN llm_out ELSE Raised("EnvironmentError", "")
    /\ UNCHANGED <<mode, phonelib, parseVars, bioVars, docVars, aiVars, prompt, debug, sdk,
                   calls, last_raw, result>>

\* lines 55-68: Responses API with response_format, json.loads on the text
OpenAITier1 == OpenAITier(1)

\* lines 70-83: Responses API without response_format, the loose parser
OpenAITier2 == OpenAITier(2)

\* lines 85-94: Chat Completions, the loose parser
OpenAITier3 == OpenAITier(3)

InitOpenAI ==
    /\ mode = "openai"
    /\ pc = "client"
    /\ phonelib = "unasked"
    /\ lines = <<>>
    /\ ParseIdle
    /\ BioIdle
    /\ AIIdle
    /\ prompt \in Prompts
    /\ debug = FALSE
    /\ sdk \in [key : BOOLEAN, features : SdkFeatures]
    /\ calls = <<>>
    /\ last_raw = ""
    /\ llm_out = NoOut
    /\ RenderIdle
    /\ result = NoResult

NextOpenAI ==
    \/ OpenAIClient
    \/ OpenAITier1
    \/ OpenAITier2
    \/ OpenAITier3

SpecOpenAI == InitOpenAI /\ [][NextOpenAI]_vars

\* ------------------------------------------------------------------
\* renderer.py: render_bio_to_docx
\* ------------------------------------------------------------------
\* the paragraph styles of the default Word template
TemplateStyles ==
    {"Normal", "Heading 1", "Heading 2", "Subtitle", "Title", "List Bullet",
     "List Paragraph"}

\* dict.get(key, default) on a value read from the plan
GetOr(v, default) == IF v.t = "missing" THEN default ELSE v

\* `x or default`
OrElse(v, default) == IF Truthy(v) THEN v ELSE default

\* bool(o) of an Optional[str] of the Bio
Present(o) == o # None /\ o[1] # ""

\* a paragraph of the document: its text and its style
Para(text, style) == [text |-> text, style |-> style]

\* lines 20-26: the style a paragraph has after _safe_set_style; a style
\* the template does not know raises inside and is skipped
safe_set_style(style, style_name) ==
    IF Truthy(style_name) /\ style_name.t = "str" /\ style_name.s \in TemplateStyles
    THEN style_name.s
    ELSE style

\* lines 29-32
add_heading(text, style_name) ==
    Para(text, safe_set_style("Normal", OrElse(style_name, PyStr("Heading 2"))))

\* lines 35-38
add_paragraph(text, style_name) ==
    Para(text, safe_set_style("Normal", OrElse(style_name, PyStr("Normal"))))

\* lines 53-59: the given style, or the three candidates one after another
bullet_style_of(style_name) ==
    IF Truthy(style_name) THEN safe_set_style("Normal", style_name)
    ELSE safe_set_style(safe_set_style(safe_set_style("Normal", PyStr("List Bullet")),
                                       PyStr("List Paragraph")),
                        PyStr("Normal"))

\* the integer a plan gives as bullet_limit
LimitInt(n) == [t |-> "int", s |-> "", l |-> <<>>, n |-> n]

RECURSIVE bullets_from_OneMore(_, _, _, _)
\* variant: the loop stops one item late
bullets_from_OneMore(items, style_name, limit, count) ==
    IF Len(items) = 0 THEN <<>>
    ELSE IF limit.t # "none" /\ count > limit.n THEN <<>>
    ELSE <<Para(items[1], bullet_style_of(style_name))>>
         \o bullets_from_OneMore(Tail(items), style_name, limit, count + 1)

RECURSIVE bullets_from(_, _, _, _)
\* lines 47-60: the loop of _add_bullets with `count` items emitted so far
bullets_from(items, style_name, limit, count) ==
    IF Len(items) = 0 THEN <<>>
    ELSE IF limit.t # "none" /\ count >= limit.n THEN <<>>
    ELSE <<Para(items[1], bullet_style_of(style_name))>>
         \o bullets_from(Tail(items), style_name, limit, count + 1)

\* lines 41-60
add_bullets(items, style_name, limit) == bullets_from(items, style_name, limit, 0)

\* lines 82-85
DefaultOrder == <<"name", "title", "department_or_practice", "location", "contact">>

\* lines 88-95: None when no contact field is present
contact_line(bio) ==
    LET contact_bits ==
            (IF Present(bio.email) THEN bio.email ELSE <<>>)
            \o (IF Present(bio.phone) THEN bio.phone ELSE <<>>)
            \o (IF Present(bio.linkedin_url) THEN bio.linkedin_url ELSE <<>>)
    IN IF Len(contact_bits) = 0 THEN None ELSE Some(Join(contact_bits, " | "))

\* lines 97-113: what one entry of the order adds to the document
header_item(item, bio, header) ==
    IF item = "name" /\ bio.full_name # ""
    THEN <<Para(bio.full_name,
                safe_set_style("Normal", GetOr(header.name_style, PyStr("Heading 1"))))>>
    ELSE IF item = "title" /\ Present(bio.current_title)
    THEN <<Para(bio.current_title[1],
                safe_set_style("Normal", GetOr(header.title_style, PyStr("Subtitle"))))>>
    ELSE IF item = "department_or_practice" /\ Present(bio.department_or_practice)
    THEN <<Para(bio.department_or_practice[1],
                safe_set_style("Normal", GetOr(header.department_style, PyStr("Normal"))))>>
    ELSE IF item = "location" /\ Present(bio.location)
    THEN <<Para(bio.location[1],
                safe_set_style("Normal", GetOr(header.location_style, PyStr("Normal"))))>>
    ELSE IF item = "contact" /\ contact_line(bio) # None
    THEN <<Para(contact_line(bio)[1],
                safe_set_style("Normal", GetOr(header.contact_style, PyStr("Normal"))))>>
    ELSE <<>>

RECURSIVE experience_paragraphs(_, _, _)
\* lines 163-169: a body line and the impact bullet of every item
experience_paragraphs(items, body_style, bullet_style) ==
    IF Len(items) = 0 THEN <<>>
    ELSE LET item == items[1]
             line == item.client_or_project
                     \o (IF Present(item.role)
                         THEN " " \o EMDASH \o " " \o item.role[1] ELSE "")
         IN <<add_paragraph(line, body_style)>>
            \o (IF Present(item.impact)
                THEN add_bullets(item.impact, bullet_style, LimitInt(1)) ELSE <<>>)
            \o experience_paragraphs(Tail(items), body_style, bullet_style)

\* the list sections and the Bio list each one shows: lines 158-181
ListSections ==
    [expertise |-> "expertise_bullets", education |-> "education",
     certifications |-> "certifications", affiliations |-> "affiliations",
     awards |-> "awards"]

\* lines 153-187: the content of a section with key `key`; ok is FALSE
\* when getattr raises TypeError on a key that is no string
section_content(key, bio, body_style, bullet_style, bullet_limit) ==
    IF key.t = "str" /\ key.s = "summary"
    THEN [ok |-> TRUE,
          paras |-> IF Present(bio.summary_paragraph)
                    THEN <<add_paragraph(bio.summary_paragraph[1], body_style)>>
                    ELSE <<>>]
    ELSE IF key.t = "str" /\ key.s \in DOMAIN ListSections
    THEN [ok |-> TRUE,
          paras |-> add_bullets(bio[ListSections[key.s]], bullet_style, bullet_limit)]
    ELSE IF key.t = "str" /\ key.s = "experience"
    THEN [ok |-> TRUE,
          paras |-> experience_paragraphs(bio.selected_experience, body_style,
                                          bullet_style)]
    ELSE IF key.t # "str" THEN [ok |-> FALSE, paras |-> <<>>]
    ELSE IF key.s \in BulletFields
    THEN [ok |-> TRUE, paras |-> add_bullets(bio[key.s], bullet_style, bullet_limit)]
    ELSE [ok |-> TRUE, paras |-> <<>>]

\* lines 139-187: one pass of the loop over the sections; the heading is
\* in the document before the content is looked at
render_section(section, bio) ==
    IF ~Truthy(section.label) THEN [ok |-> TRUE, paras |-> <<>>]
    ELSE LET heading == add_heading(section.label.s,
                                    GetOr(section.heading_style, PyStr("Heading 2")))
             content == section_content(section.key, bio,
                                        GetOr(section.body_style, PyStr("Normal")),
                                        GetOr(section.bullet_style, PyStr("List Bullet")),
                                        GetOr(section.bullet_limit, LimitInt(0)))
         IN [ok |-> content.ok, paras |-> <<heading>> \o content.paras]

\* the most section descriptors a plan of the model has
MaxSections == 2

\* a section descriptor of the plan
Section(label, key, bullet_limit) ==
    [label |-> label, key |-> key, heading_style |-> PyMissing,
     body_style |-> PyMissing, bullet_style |-> PyMissing,
     bullet_limit |-> bullet_limit]

SectionPool ==
    {Section(PyStr("Summary"), PyStr("summary"), LimitInt(0)),
     Section(PyStr("Expertise"), PyStr("expertise"), LimitInt(2)),
     Section(PyStr("Education"), PyStr("education"), PyMissing),
     Section(PyStr("Awards"), PyStr("awards"), PyNone),
     Section(PyMissing, PyStr("awards"), LimitInt(4)),
     Section(PyStr(""), PyStr("expertise"), LimitInt(4)),
     Section(PyStr("Experience"), PyStr("experience"), LimitInt(0)),
     Section(PyStr("Skills"), PyStr("expertise_bullets"), LimitInt(1)),
     Section(PyStr("Talks"), PyStr("talks"), LimitInt(3)),
     Section(PyStr("Notes"), PyMissing, LimitInt(1)),
     [Section(PyStr("Honors"), PyStr("awards"), LimitInt(1))
        EXCEPT !.heading_style = PyStr("Title"), !.bullet_style = PyNone]}

HeaderPool ==
    {Header(None),
     Header(Some(<<"contact", "name", "title">>)),
     [Header(Some(<<"name", "photo", "location", "name">>))
        EXCEPT !.name_style = PyStr("Title"), !.location_style = PyStr("Fancy")]}

Plans ==
    {[header |-> h, sections |-> ss] :
        h \in HeaderPool, ss \in SeqsUpTo(SectionPool, MaxSections)}

\* the arguments of the Bios that are rendered
RenderArgs ==
    {[ValidArgs EXCEPT
        !.department_or_practice = PyStr("Risk Advisory"),
        !.location = PyStr("Boston"),
        !.expertise_bullets = PyList(<<PyStr("AI"), PyStr("ML"), PyStr("Cloud")>>),
        !.education = PyList(<<PyStr("MBA")>>),
        !.awards = PyList(<<PyStr("Deans List"), PyStr("Top 40")>>),
        !.selected_experience =
            PyList(<<PyDict(PyStr("Acme Corp"), PyStr("Lead"), PyStr("Cut cost")),
                     PyDict(PyStr("Initech"), PyNone, PyNone)>>)],
     [NoArgs EXCEPT !.full_name = PyStr("Jane Doe")],
     [NoArgs EXCEPT !.full_name = PyStr("Jane Doe"),
                    !.phone = PyStr("+1 (617) 555-0100"),
                    !.linkedin_url = PyStr("http://linkedin.com/in/jdoe"),
                    !.summary_paragraph = PyStr("Leads AI programs."),
                    !.expertise_bullets = PyList(<<PyStr("AI")>>)]}

\* Bios as the constructor returns them
RenderBios == {Bio(a, "absent").bio : a \in RenderArgs}

\* variant: the header is rendered in the built-in order whatever the plan
order_of_BuiltIn(header) == DefaultOrder

\* line 82-85: the order the header is rendered in
order_of(header) == IF header.line_order = None THEN DefaultOrder ELSE header.line_order[1]

InitRender ==
    /\ mode = "render"
    /\ pc = "header"
    /\ phonelib = "unasked"
    /\ lines = <<>>
    /\ ParseIdle
    /\ BioIdle
    /\ AIIdle
    /\ LLMIdle
    /\ r_bio \in RenderBios
    /\ plan \in Plans
    /\ doc = <<>>
    /\ hdr_i = 0
    /\ sec_i = 0
    /\ saved = None
    /\ result = NoResult

\* lines 97-113: one pass of the loop of _render_header
RenderHeaderItem ==
    /\ mode = "render" /\ pc = "header"
    /\ hdr_i < Len(order_of(plan.header))
    /\ doc' = doc \o header_item(order_of(plan.header)[hdr_i + 1], r_bio, plan.header)
    /\ hdr_i' = hdr_i + 1
    /\ UNCHANGED <<mode, pc, phonelib, parseVars, bioVars, aiVars, llmVars, r_bio,
                   plan, sec_i, saved, result>>

\* _render_header returns; lines 131-135
RenderHeaderEnd ==
    /\ mode = "render" /\ pc = "header"
    /\ hdr_i = Len(order_of(plan.header))
    /\ pc' = "sections"
    /\ UNCHANGED <<mode, phonelib, parseVars, bioVars, aiVars, llmVars, docVars,
                   result>>

\* lines 138-187: one pass of the loop over plan["sections"]; a TypeError
\* in it ends the call with the file not written
RenderSection ==
    /\ mode = "render" /\ pc = "sections"
    /\ sec_i < Len(plan.sections)
    /\ \E r \in {render_section(plan.sections[sec_i + 1], r_bio)} :
          /\ doc' = doc \o r.paras
          /\ sec_i' = sec_i + 1
          /\ pc' = IF r.ok THEN "sections" ELSE "failed"
    /\ UNCHANGED <<mode, phonelib, parseVars, bioVars, aiVars, llmVars, r_bio, plan,
                   hdr_i, saved, result>>

\* lines 189-190: doc.save
RenderSave ==
    /\ mode = "render" /\ pc = "sections"
    /\ sec_i = Len(plan.sections)
    /\ saved' = Some(doc)
    /\ pc' = "done"
    /\ UNCHANGED <<mode, phonelib, parseVars, bioVars, aiVars, llmVars, r_bio, plan,
                   doc, hdr_i, sec_i, result>>

NextRender ==
    \/ RenderHeaderItem
    \/ RenderHeaderEnd
    \/ RenderSection
    \/ RenderSave

SpecRender == InitRender /\ [][NextRender]_vars

\* parse_bio_from_lines and the Bio constructor, either one the entry point
SpecRecord == (InitParse \/ InitBio) /\ [][NextParse \/ NextBio]_vars

\* ------------------------------------------------------------------
\* properties of parse_bio_from_lines
\* ------------------------------------------------------------------
\* C1 as stated: on the eight scenario lines the call returns a Bio with
\* full_name "Jane Doe", current_title "Senior Director", summary_paragraph
\* "Leads AI programs." and expertise_bullets Responsible AI, GenAI Strategy.
C1_ScenarioAsStated ==
    (mode = "parse" /\ lines = ScenarioDoc /\ pc \in {"done", "failed"}) =>
        /\ result.ok
        /\ result.bio.full_name = "Jane Doe"
        /\ result.bio.current_title = Some("Senior Director")
        /\ result.bio.summary_paragraph = Some("Leads AI programs.")
        /\ result.bio.expertise_bullets = <<"Responsible AI", "GenAI Strategy">>

\* C1 amended: on the eight scenario lines the call returns a Bio with
\* full_name "Jane Doe", no current_title (the line "Senior Director" is
\* itself name-like), summary_paragraph "Leads AI programs." and
\* expertise_bullets Responsible AI, GenAI Strategy.
C1_ScenarioTitleAbsent ==
    (mode = "parse" /\ lines = ScenarioDoc /\ pc \in {"done", "failed"}) =>
        /\ result.ok
        /\ result.bio.full_name = "Jane Doe"
        /\ result.bio.current_title = None
        /\ result.bio.summary_paragraph = Some("Leads AI programs.")
        /\ result.bio.expertise_bullets = <<"Responsible AI", "GenAI Strategy">>

\* the call on the scenario lines has returned, the name line found and the
\* line after it name-like
C1_ScenarioReturned ==
    /\ mode = "parse" /\ lines = ScenarioDoc /\ pc = "done"
    /\ full_name = "Jane Doe"
    /\ looks_like_name(lines[2])

RECURSIVE HeadingKeys(_, _)
\* for each of the first n lines, the section its text names as a heading
\* (NoKey for a line that is no recognized heading)
HeadingKeys(lns, n) ==
    IF n = 0 THEN <<>>
    ELSE Append(HeadingKeys(lns, n - 1), classify_heading(lns[n]))

\* the index of the last recognized heading in front of line k, 0 for none
LastHeading(hk, k) ==
    LET hs == {j \in 1..(k - 1) : hk[j] # NoKey}
    IN IF hs = {} THEN 0 ELSE Max(hs)

RECURSIVE LinesUnder(_, _, _, _)
\* the lines among the first n that are no recognized heading and whose
\* last recognized heading names the section key, in document order
LinesUnder(lns, hk, n, key) ==
    IF n = 0 THEN <<>>
    ELSE LinesUnder(lns, hk, n - 1, key)
         \o (IF /\ hk[n] = NoKey
                /\ LastHeading(hk, n) # 0
                /\ hk[LastHeading(hk, n)] = key
             THEN <<lns[n]>> ELSE <<>>)

\* C2: after any number of lines, every section holds exactly the lines
\* that are no recognized heading and follow, with no other recognized
\* heading in between, a heading of that section, in document order; so a
\* line in front of the first recognized heading is in no section, no
\* recognized heading is in a section, and a short line that is no known
\* heading leaves the cursor where it is.
C2_LinesFollowLastRecognizedHeading ==
    mode = "parse" =>
        \E hk \in {HeadingKeys(lines, ln_i)} :
            \A key \in SectionKeys : sections[key] = LinesUnder(lines, hk, ln_i, key)

\* split_sections has returned on a document where a short line that is no
\* known heading stands between a recognized heading and a plain line
C2_UnknownHeadingBetween ==
    /\ mode = "parse" /\ pc = "exp" /\ ln_i = Len(lines)
    /\ \E hk \in {HeadingKeys(lines, ln_i)} :
        \E k \in 2..(Len(lines) - 1) :
          /\ ShortHeadingShape(lines[k])
          /\ hk[k] = NoKey
          /\ LastHeading(hk, k) # 0
          /\ hk[k + 1] = NoKey
          /\ ~ShortHeadingShape(lines[k + 1])
          /\ \E key \in SectionKeys : \E m \in 1..Len(sections[key]) :
                sections[key][m] = lines[k + 1]

\* C3 as stated: a short line (at most 3 tokens, upper-case or Title-Case)
\* that matches no section alias appears in no section, whatever the cursor.
C3_UnknownHeadingDropped ==
    mode = "parse" =>
        \A key \in SectionKeys : \A m \in 1..Len(sections[key]) :
            ~(/\ ShortHeadingShape(sections[key][m])
              /\ classify_heading(sections[key][m]) = NoKey)

\* the entry the loop builds from the window that starts at line a of
\* the experience section xs (b = a + 1, c = a + 2 when there is one)
WindowEntry(xs, a) ==
    [client_or_project |-> Strip(xs[a]),
     role |-> Some(Strip(xs[a + 1])),
     impact |-> IF a + 2 <= Len(xs) THEN Some(CollapseWs(xs[a + 2])) ELSE None]

\* C5 as stated: with exactly 5 experience lines the returned Bio has one
\* entry, built from the first 3 lines; the other 2 lines are discarded.
C5_FiveLinesOneEntry ==
    (mode = "parse" /\ pc = "done" /\ Len(sections["experience"]) = 5) =>
        result.bio.selected_experience = <<WindowEntry(sections["experience"], 1)>>

\* C5 amended: with exactly 5 experience lines the loop ends with two
\* entries, the first built from lines 1-3 and the second from lines 4-5
\* (label, role, no impact), and the returned Bio holds these two; no line
\* is discarded.
C5_FiveLinesTwoEntries ==
    (mode = "parse" /\ pc \in {"build", "done"} /\ Len(sections["experience"]) = 5) =>
        /\ selected_experience =
              <<WindowEntry(sections["experience"], 1),
                WindowEntry(sections["experience"], 4)>>
        /\ selected_experience[2].impact = None
        /\ pc = "done" => result.bio.selected_experience = selected_experience

\* a Bio was returned for a document with 5 experience lines
C5_FiveLinesReturned ==
    /\ mode = "parse" /\ pc = "done"
    /\ Len(sections["experience"]) = 5
    /\ Len(result.bio.selected_experience) = 2

\* C6: the loop takes the experience lines in windows of 3 from the start
\* (i is 3 times the number of entries); entry k is built from lines 3k-2,
\* 3k-1 and, where there is one, 3k, so it never comes from a single line
\* and its role is the second line of its window; when the loop has ended
\* on n lines there are n div 3 entries, and one more exactly when
\* n mod 3 = 2, and fewer than 2 lines are left.
C6_ExperienceWindows ==
    mode = "parse" =>
        LET xs == sections["experience"]
            n == Len(xs)
            m == Len(selected_experience)
        IN /\ exp_i = 3 * m
           /\ \A k \in 1..m :
                 /\ 3 * k - 1 <= n
                 /\ selected_experience[k] = WindowEntry(xs, 3 * k - 2)
                 /\ selected_experience[k].role = Some(Strip(xs[3 * k - 1]))
           /\ pc \in {"build", "done"} =>
                 /\ m = (n \div 3) + (IF n % 3 = 2 THEN 1 ELSE 0)
                 /\ n - exp_i < 2

\* the loop has ended with one line left over after at least one entry
C6_OneLineLeftOver ==
    /\ mode = "parse" /\ pc = "build"
    /\ Len(sections["experience"]) % 3 = 1
    /\ Len(selected_experience) >= 1
    /\ exp_i = Len(sections["experience"]) - 1

\* C7: every Bio the constructor returns has a full_name of at least 2
\* characters with its whitespace collapsed; and when none of the first 6
\* lines is name-like, the Bio parse_bio_from_lines returns has full_name
\* "Unknown" and no current_title, also when a later line is name-like.
C7_NameNeverEmpty ==
    /\ result.ok =>
          /\ Len(result.bio.full_name) >= 2
          /\ result.bio.full_name = CollapseWs(result.bio.full_name)
    /\ (/\ mode = "parse" /\ pc = "done"
        /\ \A k \in 1..Len(lines) : k <= 6 => ~looks_like_name(lines[k])) =>
          /\ result.bio.full_name = "Unknown"
          /\ result.bio.current_title = None

\* a Bio was returned for a document whose first name-like line is the 7th
C7_NameAfterSixthLine ==
    /\ mode = "parse" /\ pc = "done"
    /\ Len(lines) >= 7
    /\ looks_like_name(lines[7])
    /\ \A k \in 1..6 : ~looks_like_name(lines[k])
    /\ result.bio.full_name = "Unknown"

\* C9 as stated: for every list of non-empty lines parse_bio_from_lines
\* returns a Bio; no call ends in an exception of a constructor.
C9_ParseAlwaysReturns == mode = "parse" => pc # "failed"

\* ------------------------------------------------------------------
\* properties of the Bio constructor
\* ------------------------------------------------------------------
\* no two entries of xs are equal ignoring case
NoCaseDuplicates(xs) ==
    \A i \in 1..Len(xs) : \A j \in 1..Len(xs) :
        i # j => Lower(xs[i]) # Lower(xs[j])

\* C4 as stated: in every Bio the constructor returns, after the model
\* validator has run, none of the five bullet lists holds two entries
\* that are equal ignoring case.
C4_BulletsDeduplicated ==
    (mode = "bio" /\ pc = "done") =>
        \A f \in BulletFields : NoCaseDuplicates(result.bio[f])

\* the causes C8 names, and the one it leaves out
NameCause(v) == v.t # "str" \/ Len(CollapseWs(v.s)) < 2
EmailCause(v) == v.t = "str" /\ ~EmailStrValid(v.s)
LinkCause(v) ==
    v.t = "str" /\ ~(UrlParse(v.s).ok /\ Contains(UrlParse(v.s).host, "linkedin.com"))
LabelCause(v) ==
    v.t = "list" /\ \E k \in 1..Len(v.l) :
        v.l[k].l[1].t # "str" \/ Len(Strip(v.l[k].l[1].s)) < 2

\* a string or nothing
StrOrNothing(v) == v.t \in {"str", "none", "missing"}

\* every argument but full_name has a value of the declared type
DeclaredTypes(in) ==
    /\ \A f \in {"current_title", "department_or_practice", "location", "email",
                  "phone", "linkedin_url", "summary_paragraph"} : StrOrNothing(in[f])
    /\ \A f \in BulletFields : in[f].t \in {"str", "list", "none", "missing"}
    /\ in.selected_experience.t \in {"list", "missing"}
    /\ \A k \in 1..Len(in.selected_experience.l) :
          /\ in.selected_experience.l[k].t = "dict"
          /\ StrOrNothing(in.selected_experience.l[k].l[2])
          /\ StrOrNothing(in.selected_experience.l[k].l[3])

C13_LinkedinHostDecides ==
    (/\ mode = "bio" /\ pc # "validate"
     /\ bio_in.linkedin_url.t = "str"
     /\ UrlParse(bio_in.linkedin_url.s).ok) =>
        IF Contains(UrlParse(bio_in.linkedin_url.s).host, "linkedin.com")
        THEN /\ "linkedin_url" \notin result.errors
             /\ result.ok =>
                   result.bio.linkedin_url
                       = Some(UrlText(UrlParse(bio_in.linkedin_url.s)))
             /\ (result.ok /\ bio_in.linkedin_url.s = "http://linkedin.com/in/jdoe") =>
                   result.bio.linkedin_url = Some("http://linkedin.com/in/jdoe")
             /\ [bio_in EXCEPT !.linkedin_url = ValidArgs.linkedin_url] = ValidArgs =>
                   result.ok
        ELSE /\ ~result.ok
             /\ result.kind = "ValidationError" => "linkedin_url" \in result.errors

\* C13 witness: every argument valid but the link, which is on example.com:
\* the construction failed on linkedin_url alone
C13_ForeignHostRefused ==
    /\ mode = "bio" /\ pc = "failed"
    /\ bio_in = [ValidArgs EXCEPT !.linkedin_url = PyStr("http://example.com/in/jdoe")]
    /\ result.kind = "ValidationError"
    /\ result.errors = {"linkedin_url"}

\* C14 as stated: a phone given as a string never fails the construction;
\* when nothing is left of it after everything but digits and "+" is
\* removed the Bio has no phone; when no parser is installed or the parser
\* refuses the number the Bio holds exactly the digits and "+" left
C14_PhoneNeverFails ==
    (mode = "bio" /\ pc # "validate" /\ bio_in.phone.t = "str") =>
        /\ "phone" \notin result.errors
        /\ (result.ok /\ DigitsPlus(bio_in.phone.s) = "") =>
              result.bio.phone = None
        /\ (result.ok /\ DigitsPlus(bio_in.phone.s) # ""
                /\ phonelib \in {"absent", "rejects"}) =>
              result.bio.phone = Some(DigitsPlus(bio_in.phone.s))

\* t is b up to its first ";", en dash or em dash, all of b when it has none
BeforeFirstSeparator(b, t) ==
    IF CharsOf(b) \cap BulletSeparators = {} THEN t = b
    ELSE /\ CharsOf(t) \cap BulletSeparators = {}
         /\ Len(t) < Len(b)
         /\ Sub(b, 1, Len(t)) = t
         /\ Ch(b, Len(t) + 1) \in BulletSeparators

\* the list `new` is the list `old` with the compression rule applied once
\* to each bullet
CompressedOnce(old, new) ==
    /\ Len(new) = Len(old)
    /\ \A k \in 1..Len(old) :
          IF word_count(old[k]) <= 16 THEN new[k] = old[k]
          ELSE BeforeFirstSeparator(old[k], new[k])

C10_ReconcilerAlwaysReturns ==
    (mode = "ai" /\ ai_data # NoData /\ ai_data.t = "object") => pc # "failed"

\* ------------------------------------------------------------------
\* properties of ollama_json and openai_json
\* ------------------------------------------------------------------
\* the request got an answer that _extract_json_block reads as JSON
Parses(c) == c.answer # None /\ extract_json_block(c.answer[1]).ok

\* the k-th request is the one the k-th rung of the ladder posts
LadderRequest(c, k) ==
    /\ c.api = "generate"
    /\ IF k = 1 THEN c.format = "json" /\ c.prompt = prompt
       ELSE IF k = 2 THEN c.format = "" /\ c.prompt = reinforced(prompt)
       ELSE c.format = "" /\ \E raw \in Completions : c.prompt = fixer(raw)

\* C11: ollama_json makes at most three requests, in the order strict,
\* reinforced, fixer; every request but the last one made has failed; it
\* returns exactly when the last request made parses, and it raises the
\* no-JSON ValueError only when three requests were made and all failed
C11_LadderInOrder ==
    mode = "ollama" =>
        /\ Len(calls) <= Len(Ladder)
        /\ \A k \in 1..Len(calls) : LadderRequest(calls[k], k)
        /\ \A k \in 1..(Len(calls) - 1) : ~Parses(calls[k])
        /\ llm_out.state = "returned" <=>
               (Len(calls) >= 1 /\ Parses(calls[Len(calls)]))
        /\ llm_out.state = "raised" <=>
               (Len(calls) = Len(Ladder) /\ ~Parses(calls[Len(calls)]))
        /\ llm_out.state = "raised" => llm_out.kind = "ValueError"
        /\ llm_out.state = "running" <=> pc \in {Ladder[k] : k \in 1..Len(Ladder)}

\* C11 witness: the first two requests failed and the third one parsed
C11_ThirdRequestParses ==
    /\ mode = "ollama"
    /\ Len(calls) = 3
    /\ llm_out.state = "returned"

\* C12: with a client built, an exception leaves openai_json only out of the third tier: an
\* API error or an unreadable response in tier 1 or tier 2 takes the call
\* on to the next tier
C12_ErrorsOnlyAfterThirdTier ==
    (mode = "openai" /\ sdk.key /\ llm_out.state = "raised") =>
        /\ Len(calls) >= 1
        /\ calls[Len(calls)].api = "chat"

\* ------------------------------------------------------------------
\* properties of render_bio_to_docx
\* ------------------------------------------------------------------
\* the present ones of email, phone and link, in that order
ContactValues(bio) ==
    LET Given(o) == Present(o)
    IN SelectSeq(<<bio.email, bio.phone, bio.linkedin_url>>, Given)

\* the text behind an entry of line_order, None when the Bio has none
BackingText(item, bio) ==
    IF item = "name" THEN Some(bio.full_name)
    ELSE IF item = "title" THEN bio.current_title
    ELSE IF item = "department_or_practice" THEN bio.department_or_practice
    ELSE IF item = "location" THEN bio.location
    ELSE IF item = "contact" /\ Len(ContactValues(bio)) > 0
    THEN Some(Join([k \in 1..Len(ContactValues(bio)) |-> ContactValues(bio)[k][1]],
                   " | "))
    ELSE None

RECURSIVE HeaderTexts(_, _, _)
\* the texts of the first n entries of the order that have one
HeaderTexts(order, n, bio) ==
    IF n = 0 THEN <<>>
    ELSE HeaderTexts(order, n - 1, bio)
         \o (IF Present(BackingText(order[n], bio))
             THEN BackingText(order[n], bio) ELSE <<>>)

\* the order the plan asks for, the built-in one when it names none
PlanOrder ==
    IF plan.header.line_order = None
    THEN <<"name", "title", "department_or_practice", "location", "contact">>
    ELSE plan.header.line_order[1]

\* C16: the document starts with the header paragraphs, one for every entry
\* of the plan's line_order consumed so far whose Bio field is present, in
\* the order of line_order; the contact paragraph is the present ones of
\* email, phone and link joined by " | " and is left out when none is
\* present; while the header is rendered the document holds nothing else
C16_HeaderInPlanOrder ==
    mode = "render" =>
        \E h \in {HeaderTexts(PlanOrder, hdr_i, r_bio)} :
            /\ Len(doc) >= Len(h)
            /\ \A k \in 1..Len(h) : doc[k].text = h[k]
            /\ pc = "header" => Len(doc) = Len(h)
            /\ pc # "header" => hdr_i = Len(PlanOrder)

\* C16 witness: the plan puts the contact line first; the header of a Bio
\* with all three contact fields is that line, the name, the title
C16_ContactLineFirst ==
    /\ mode = "render" /\ pc = "sections"
    /\ plan.header.line_order = Some(<<"contact", "name", "title">>)
    /\ Len(doc) >= 3
    /\ doc[1].text = "Jane.Doe@example.com | +16175550100 | http://linkedin.com/in/jdoe"
    /\ doc[2].text = "Jane Doe"
    /\ doc[3].text = "Vp Of Sales"

\* the texts of a sequence of paragraphs
TextsOf(paras) == [k \in 1..Len(paras) |-> paras[k].text]

RECURSIVE SectionTexts(_, _, _)
\* what the first n descriptors put into the document: nothing for one
\* without a label, the label and then the content for every other one
SectionTexts(descs, n, bio) ==
    IF n = 0 THEN <<>>
    ELSE SectionTexts(descs, n - 1, bio)
         \o (IF ~Truthy(descs[n].label) THEN <<>>
             ELSE <<descs[n].label.s>>
                  \o TextsOf(section_content(
                         descs[n].key, bio, descs[n].body_style,
                         descs[n].bullet_style,
                         GetOr(descs[n].bullet_limit, LimitInt(0))).paras))

\* C17 as stated: when render_bio_to_docx has ended, the document it wrote
\* is the whole header and then, for every section descriptor in plan
\* order, nothing when it has no label and otherwise one heading with the
\* label followed by the content of the section, the heading being there
\* for any key and for a missing key
C17_SectionsInPlanOrder ==
    (mode = "render" /\ pc \in {"done", "failed"}) =>
        /\ saved # None
        /\ TextsOf(saved[1])
              = HeaderTexts(PlanOrder, Len(PlanOrder), r_bio)
                \o SectionTexts(plan.sections, Len(plan.sections), r_bio)

\* the Bio list a list section shows
ListOf(key, bio) ==
    IF key = "expertise" THEN bio.expertise_bullets
    ELSE IF key = "education" THEN bio.education
    ELSE IF key = "certifications" THEN bio.certifications
    ELSE IF key = "affiliations" THEN bio.affiliations
    ELSE bio.awards

\* the descriptor is a labelled list section whose bullet_limit is a
\* number or is left out
ListSection(d) ==
    /\ Truthy(d.label)
    /\ d.key.t = "str"
    /\ d.key.s \in {"expertise", "education", "certifications", "affiliations",
                    "awards"}
    /\ d.bullet_limit.t \in {"int", "missing"}

\* the first m items of a list
FirstItems(list, m) == [k \in 1..m |-> list[k]]

\* C18: the pass over a list section adds the heading and then exactly
\* the first min(n, bullet_limit) of the n items of the Bio list, in list
\* order, a bullet_limit left out counting as 0: with 0 or none given the
\* section is its heading alone
C18_BulletsCapped ==
    [][(/\ mode = "render" /\ pc = "sections" /\ sec_i' = sec_i + 1
        /\ ListSection(plan.sections[sec_i + 1])) =>
          \E d \in {plan.sections[sec_i + 1]} :
            \E limit \in {IF d.bullet_limit.t = "missing" THEN 0
                           ELSE d.bullet_limit.n} :
              TextsOf(doc')
                = TextsOf(doc) \o <<d.label.s>>
                  \o FirstItems(ListOf(d.key.s, r_bio),
                                Min({limit, Len(ListOf(d.key.s, r_bio))}))]_vars

\* C18 witness: the expertise section with bullet_limit 2 has shown the
\* first two of three bullets under its heading
C18_TwoOfThreeShown ==
    /\ mode = "render" /\ pc = "sections" /\ sec_i = 1
    /\ plan.sections[1] = Section(PyStr("Expertise"), PyStr("expertise"), LimitInt(2))
    /\ r_bio.expertise_bullets = <<"AI", "ML", "Cloud">>
    /\ Len(doc) >= 3
    /\ doc[Len(doc) - 2].text = "Expertise"
    /\ doc[Len(doc) - 1].text = "AI"
    /\ doc[Len(doc)].text = "ML"

\* ------------------------------------------------------------------
\* properties of the repairs of ai_extract_bio_from_text
\* ------------------------------------------------------------------
\* the full_name the source gave: nothing when it gave no object
GivenName == IF ai_data.t = "object" THEN ai_data.d.full_name ELSE PyNone

\* the given full_name is absent, the empty string or whitespace only
GivenNameEmpty ==
    \/ GivenName.t \in {"missing", "none"}
    \/ GivenName.t = "str" /\ Strip(GivenName.s) = ""

\* the first name-like line among the first 8 non-empty lines of the text,
\* "Unknown" when there is none
NameFromText ==
    LET lns == TextLines(ai_text)
        first == IF Len(lns) < 8 THEN lns ELSE SubSeq(lns, 1, 8)
        hits == {k \in 1..Len(first) : looks_like_name(first[k])}
    IN IF hits = {} THEN "Unknown" ELSE first[Min(hits)]

\* C19 as stated: once the name repair has run on an empty given
\* full_name, the payload holds the first name-like line of the first 8
\* non-empty lines of the text, or "Unknown" when there is none; the call
\* does not fail on full_name and a Bio it returns has that name
C19_EmptyNameRepaired ==
    (/\ mode = "ai"
     /\ pc \in {"lists", "experience", "construct", "done", "failed"}
     /\ ai_data # NoData
     /\ GivenNameEmpty) =>
        /\ payload.full_name = PyStr(NameFromText)
        /\ pc = "failed" => "full_name" \notin result.errors
        /\ pc = "done" => result.bio.full_name = NameFromText

\* the value the source gave for the key f: missing when it gave no object
Given(f) == IF ai_data.t = "object" THEN ai_data.d[f] ELSE PyMissing

\* the commas of s that are followed by one or more whitespace characters
\* and then by a character of the set after
CommaCuts(s, after) ==
    {i \in 1..Len(s) :
        /\ Ch(s, i) = ","
        /\ i < Len(s) /\ Ch(s, i + 1) \in Whitespace
        /\ \E j \in (i + 2)..Len(s) :
              /\ Ch(s, j) \in after
              /\ \A k \in (i + 1)..(j - 1) : Ch(s, k) \in Whitespace}

\* the last position of the cut that starts at i: a comma takes the
\* whitespace after it along, a semicolon or a newline stands alone
CutEnd(s, i) ==
    IF Ch(s, i) = ","
    THEN CHOOSE e \in i..Len(s) :
            /\ \A k \in (i + 1)..e : Ch(s, k) \in Whitespace
            /\ e = Len(s) \/ Ch(s, e + 1) \notin Whitespace
    ELSE i

\* where s is cut: at the commas of CommaCuts, and at every semicolon and
\* newline that is not whitespace taken along by such a comma
CutsOf(s, after) ==
    LET commas == CommaCuts(s, after)
    IN commas \cup
       {i \in 1..Len(s) :
           /\ Ch(s, i) \in {";", "\n"}
           /\ \A c \in commas : ~(c < i /\ i <= CutEnd(s, c))}

RECURSIVE PiecesFrom(_, _, _)
\* the pieces of s from position start on, between the cuts
PiecesFrom(s, start, cuts) ==
    LET ahead == {c \in cuts : c >= start}
    IN IF ahead = {} THEN <<Sub(s, start, Len(s))>>
       ELSE <<Sub(s, start, Min(ahead) - 1)>>
            \o PiecesFrom(s, CutEnd(s, Min(ahead)) + 1, cuts)

\* the items of the string s: its non-blank pieces, each without the
\* blanks, bullets, hyphens and tabs at its ends
ItemsOf(s, after) ==
    LET NonBlank(piece) == Strip(piece) # ""
        kept == SelectSeq(PiecesFrom(s, 1, CutsOf(s, after)), NonBlank)
    IN PyList([k \in 1..Len(kept) |->
                 PyStr(StripChars(kept[k], {" ", BULLET, "-", "\t"}))])

\* the list fields have been coerced
ListsCoerced ==
    /\ mode = "ai"
    /\ pc \in {"experience", "construct", "done", "failed"}
    /\ ai_data # NoData

\* C20 as stated: a list field given as one string is split at every
\* semicolon, at every newline, and at a comma only when a capital letter
\* follows the comma and its whitespace; a comma before a lower-case letter
\* does not split; an absent list field becomes the empty list
C20_CommaSplitsBeforeCapital ==
    ListsCoerced =>
        \A f \in BulletFields :
            /\ Given(f).t = "str" => payload[f] = ItemsOf(Given(f).s, UpperSet)
            /\ Given(f).t \in {"missing", "none"} => payload[f] = PyList(<<>>)

\* C20 amended: a list field given as one string is split at every
\* semicolon, at every newline, and at a comma that is followed by
\* whitespace and then a letter of either case; a comma followed directly
\* by a character, or by whitespace and no letter, does not split; an
\* absent list field becomes the empty list
C20_CommaSplitsBeforeLetter ==
    ListsCoerced =>
        \A f \in BulletFields :
            /\ Given(f).t = "str" => payload[f] = ItemsOf(Given(f).s, LetterSet)
            /\ Given(f).t \in {"missing", "none"} => payload[f] = PyList(<<>>)

\* a string with a comma before a lower-case word, a comma before a digit
\* and two semicolons in a row has been split, and an absent field emptied
C20_LowerCaseWordSplitOff ==
    /\ ListsCoerced
    /\ Given("expertise_bullets") = PyStr("Risk, 5G,  ai;; - ;ML")
    /\ payload.expertise_bullets =
          PyList(<<PyStr("Risk, 5G"), PyStr("ai"), PyStr(""), PyStr("ML")>>)
    /\ Given("affiliations") = PyNone
    /\ payload.affiliations = PyList(<<>>)

\* ------------------------------------------------------------------
\* properties of the experience coercion of ai_extract_bio_from_text
\* ------------------------------------------------------------------
\* a role or an impact: absent when it is missing or empty
AbsentIfEmpty(x) ==
    IF x.t \in {"missing", "none"} \/ x = PyStr("") THEN PyNone ELSE x

\* the label of a mapping: stripped, the empty string when there is none
LabelOf(x) ==
    IF x.t = "str" THEN PyStr(Strip(x.s))
    ELSE IF x.t \in {"missing", "none"} THEN PyStr("")
    ELSE x

\* one mapping or one plain string of a given list, as an entry
EntryOf(it) ==
    IF it.t = "str" THEN PyDict(PyStr(Strip(it.s)), PyNone, PyNone)
    ELSE PyDict(LabelOf(it.l[1]), AbsentIfEmpty(it.l[2]), AbsentIfEmpty(it.l[3]))

\* the selected_experience the payload is to hold for the given value v
ExperienceOf(v) ==
    LET Kept(it) == it.t \in {"dict", "str"}
        kept == IF v.t = "list" THEN SelectSeq(v.l, Kept) ELSE <<>>
    IN IF v.t = "dict" THEN PyList(<<v>>)
       ELSE PyList([k \in 1..Len(kept) |-> EntryOf(kept[k])])

\* the experience step of the reconciler is over
ExperienceCoerced ==
    /\ mode = "ai"
    /\ pc \in {"construct", "done", "failed"}
    /\ ai_data # NoData

\* C21 as stated: before construction the payload holds the given
\* selected_experience coerced (one mapping as a one-element list; of a
\* list the mappings normalized, the plain strings as labels, the other
\* items dropped; anything else as the empty list), and the call never
\* fails on selected_experience
C21_ExperienceCoercedAndAccepted ==
    ExperienceCoerced =>
        /\ payload.selected_experience = ExperienceOf(Given("selected_experience"))
        /\ pc = "failed" => "selected_experience" \notin result.errors

\* ------------------------------------------------------------------
\* properties of the name normalization of Bio
\* ------------------------------------------------------------------
\* the text unchanged
AsInSource(s) == s

\* the tokens of the name s joined by single blanks: a token of the
\* acronym set in upper case, of any other token the leading letter in
\* upper case and the rest as Rest makes it
NameAs(s, Rest(_)) ==
    LET toks == SplitWs(s)
    IN Join([k \in 1..Len(toks) |->
                IF Upper(toks[k]) \in ACRONYMS THEN Upper(toks[k])
                ELSE UpperChar(Ch(toks[k], 1))
                     \o Rest(Sub(toks[k], 2, Len(toks[k])))], " ")

\* a Bio has been constructed from a full_name that is a string
NameNormalized ==
    /\ mode = "bio" /\ pc = "done" /\ result.ok
    /\ bio_in.full_name.t = "str"

\* C22 as stated: the name of the Bio is the given name with its
\* whitespace collapsed, the acronyms in upper case, and of every other
\* token the leading letter in upper case and the rest as in the source
C22_NameRestAsInSource ==
    NameNormalized => result.bio.full_name = NameAs(bio_in.full_name.s, AsInSource)

\* C22 amended: as above, but the rest of every token that is no acronym
\* is in lower case
C22_NameRestLowerCase ==
    NameNormalized => result.bio.full_name = NameAs(bio_in.full_name.s, Lower)

\* an acronym and a name with an inner capital, two blanks between them
C22_McDonaldLowered ==
    /\ NameNormalized
    /\ bio_in.full_name = PyStr("ai  McDonald")
    /\ result.bio.full_name = "AI Mcdonald"

\* ------------------------------------------------------------------
\* properties of the lines parse_bio_from_lines segments
\* ------------------------------------------------------------------
\* the index of the line recorded as full_name, 0 when none was
NameAt == IF NameHits(lines) = {} THEN 0 ELSE Min(NameHits(lines))

\* the index of the line recorded as current_title, 0 when none was
TitleAt == IF NameAt # 0 /\ current_title # None THEN NameAt + 1 ELSE 0

\* how often the text x is a line of lns, the indices of skip left out
Occurrences(lns, x, skip) ==
    Cardinality({i \in (1..Len(lns)) \ skip : Strip(lns[i]) = Strip(x)})

\* the lines of the experience section that the windows have taken
WindowLines ==
    SubSeq(sections["experience"], 1, Min({exp_i, Len(sections["experience"])}))

\* the lines the summary, the bullet lists and the experience windows of
\* the Bio are made of
SectionContent ==
    sections["summary"] \o sections["expertise"] \o WindowLines
    \o sections["education"] \o sections["certifications"]
    \o sections["affiliations"] \o sections["awards"]

\* C23 as stated: in a returned Bio the line recorded as full_name and the
\* line recorded as current_title are in no section's content: each of
\* the two texts is there no more often than it is among the other lines
\* of the document
C23_NameAndTitleOutsideSections ==
    (mode = "parse" /\ pc = "done") =>
        \A i \in {NameAt, TitleAt} \ {0} :
            Occurrences(SectionContent, lines[i], {})
                <= Occurrences(lines, lines[i], {NameAt, TitleAt})

\* ------------------------------------------------------------------
\* properties of clean_bullets applied twice
\* ------------------------------------------------------------------
\* the second call of clean_bullets, on what the first returned
SecondCleaning == mode = "clean" /\ pc = "once" /\ pc' = "twice"

\* the line begins with a bullet glyph
GlyphLed(ln) == Len(ln) >= 1 /\ Ch(ln, 1) \in BulletGlyphs

\* C24 as stated: cleaning the list that cleaning returned changes
\* nothing
C24_CleaningIdempotent ==
    [][SecondCleaning => result' = result]_vars

\* C24 amended: cleaning the list that cleaning returned changes nothing
\* exactly when no item of that list begins with a bullet glyph; an item
\* that still does loses that glyph too
C24_IdempotentUnlessGlyphLed ==
    [][SecondCleaning =>
          (result' = result <=> \A i \in 1..Len(result) : ~GlyphLed(result[i]))]_vars

\* a line with two leading glyphs has been cleaned twice, each call taking
\* one glyph; the line with no glyph stayed
C24_TwoGlyphsTwoPasses ==
    /\ mode = "clean" /\ pc = "twice"
    /\ lines = <<"- - item", "item">>
    /\ clean_bullets(lines) = <<"- item", "item">>
    /\ result = <<"item", "item">>

====
